---- MODULE Spec2Model ----
(***************************************************************************)
(* streamup: streaming multipart upload to S3-compatible storage.          *)
(*                                                                         *)
(* Two specifications share the variables below.                           *)
(*   Spec      the upload pipeline of pkg/streamup/uploader.go: Upload     *)
(*             (the session controller and, inline, the Producer), the     *)
(*             worker pool, the Collector, and the callers' cancellation   *)
(*             (context cancel, concurrent Abort()).                       *)
(*   SpecCalc  the pure part-size calculator of pkg/streamup/calculator.go *)
(*             applied to inputs drawn from bounded sets.                  *)
(* All sizes are bytes, as in the source.  Inputs are kept below 2^31.     *)
(***************************************************************************)
EXTENDS Integers, Sequences, FiniteSets, TLC

(***************************************************************************)
(* Bounds of the model (not program constants).                            *)
(***************************************************************************)
\* Workers + QueueSize of the configurations tried.
MaxPipelineSlots == 3

\* Chunks in the longest stream tried.
MaxChunks == 3

MaxRetriesBound == 1

\* SpecCalc: file sizes up to this many quarter megabytes.
MaxFileQuarterMB == 72

\* SpecCalc: ServiceLimits.MaxParts up to this.
MaxPartsBound == 3

\* SpecCalc: workers up to this.
MaxCalcWorkers == 2

\* SpecCalc: maxMemoryMB up to this (0 is "no limit").
MaxMemoryBound == 1

\* calculateBackoff is tried for attempts 0..MaxAttempt.
MaxAttempt == 10

\* SpecCalc64: file sizes up to this many times 500 MB.
MaxFileHalfGB == 144

\* Download: megabytes one Read of the response body delivers at most.
DownloadBlockMB == 4

\* Download calls made on one Downloader.
MaxDownloads == 2

(***************************************************************************)
(* Program constants.                                                      *)
(***************************************************************************)
targetParts == 1000

mbSize == 1024 * 1024

defaultMinPartSize == 5 * 1024 * 1024

\* 5 GB in the source; written as a product so that it is never evaluated
\* as one 32-bit number: it is only compared through ExceedsDefaultMax.
defaultMaxPartSizeMB == 5 * 1024

defaultMaxParts == 10000

defaultWorkers == 4

defaultQueueSize == 10

(***************************************************************************)
(* limits.go                                                               *)
(***************************************************************************)
\* l.MaxPartSize > defaultMaxPartSize, for sizes below 2^31 compared in
\* whole megabytes plus remainder (5 GB itself does not fit 32 bits).
ExceedsDefaultMax(size) ==
    \/ size \div mbSize > defaultMaxPartSizeMB
    \/ size \div mbSize = defaultMaxPartSizeMB /\ size % mbSize > 0

\* ServiceLimits.Validate: the field of the first failing check, "" for nil.
LimitsValidate(l) ==
    IF l.MinPartSize < defaultMinPartSize THEN "MinPartSize"
    ELSE IF ExceedsDefaultMax(l.MaxPartSize) THEN "MaxPartSize"
    ELSE IF l.MinPartSize > l.MaxPartSize THEN "MinPartSize"
    ELSE IF l.MaxParts <= 0 \/ l.MaxParts > defaultMaxParts THEN "MaxParts"
    ELSE ""

\* Custom ServiceLimits supplied in the upload configuration (Config.
\* ServiceLimits non-nil): valid, and small enough for 32-bit arithmetic.
PipelineLimits == [MinPartSize |-> defaultMinPartSize,
                   MaxPartSize |-> 8 * mbSize,
                   MaxParts    |-> MaxChunks + 1]

(***************************************************************************)
(* calculator.go                                                           *)
(***************************************************************************)
\* math.Ceil(float64(a) / float64(b)) for 0 <= a, 0 < b; exact below 2^53.
CeilDiv(a, b) == (a + b - 1) \div b

roundToNearestMB(size) ==
    LET remainder == size % mbSize
    IN  IF remainder < mbSize \div 2
        THEN size - remainder
        ELSE size + (mbSize - remainder)

\* The MaxParts correction branch (calculator.go:91-101) applied to the
\* clamped part size.
CorrectForMaxParts(fileSize, partSize, limits) ==
    LET actualParts == CeilDiv(fileSize, partSize)
    IN  IF actualParts > limits.MaxParts
        THEN LET p2 == roundToNearestMB(CeilDiv(fileSize, limits.MaxParts))
             IN  IF p2 > limits.MaxPartSize
                 THEN [size |-> 0, err |-> "cannot be uploaded"]
                 ELSE [size |-> p2, err |-> ""]
        ELSE [size |-> partSize, err |-> ""]

\* The division at calculator.go:63 with workers + queueSize = 0: Go
\* panics on an integer division by zero and nothing is returned.
DivideByZero == [size |-> 0, err |-> "panic: integer divide by zero"]

\* MaxFileSize with a fault seeded: twice the service maximum is let in.
MaxFileSizeDoubled(l) == 2 * l.MaxPartSize * l.MaxParts

MaxFileSize(l) == l.MaxPartSize * l.MaxParts

CalculateOptimalPartSize(fileSize, maxMemoryMB, workers, queueSize, limits) ==
    IF LimitsValidate(limits) # ""
    THEN [size |-> 0, err |-> "validation"]
    ELSE IF fileSize > MaxFileSize(limits)
    THEN [size |-> 0, err |-> "exceeds service limit"]
    ELSE IF maxMemoryMB > 0 /\ workers + queueSize = 0
    THEN DivideByZero
    ELSE
      LET idealPartSize == fileSize \div targetParts
          totalSlots == workers + queueSize
          memoryConstrainedPartSize ==
              IF maxMemoryMB > 0
              THEN (maxMemoryMB * mbSize) \div totalSlots
              ELSE 0
          p0 == IF maxMemoryMB > 0 /\ idealPartSize > memoryConstrainedPartSize
                THEN memoryConstrainedPartSize
                ELSE idealPartSize
          p1 == roundToNearestMB(p0)
          p2 == IF p1 < limits.MinPartSize THEN limits.MinPartSize ELSE p1
          p3 == IF p2 > limits.MaxPartSize THEN limits.MaxPartSize ELSE p2
      IN  CorrectForMaxParts(fileSize, p3, limits)

(***************************************************************************)
(* State.                                                                  *)
(***************************************************************************)
VARIABLES
    cfg,            \* Uploader.config after Validate (Workers, QueueSize, ...)
    partSize,       \* Uploader.partSize
    streamLen,      \* bytes the input reader delivers in all
    remaining,      \* bytes the reader has not delivered yet
    ctxDone,        \* u.ctx is cancelled
    ctxCancelled,   \* the caller cancelled Config.Context
    userAborted,    \* the caller called Abort() concurrently
    cancelledRunning, \* history: the caller cancelled while the pipeline ran
    uploadID,       \* Uploader.uploadID ("" before the session is begun)
    mainPc,         \* position of Upload
    prodPc,         \* position of produceparts
    partNumber,     \* produceparts: partNumber
    partData,       \* produceparts: len(partData) waiting to be sent, 0 if none
    lastShort,      \* produceparts: the last ReadFull ended the stream
    uploadErr,      \* Upload: uploadErr
    collectorErr,   \* Upload: collectorErr
    retErr,         \* the error Upload returned
    partsChan,      \* chan part, capacity QueueSize
    partsClosed,
    resultsChan,    \* chan completedPart, capacity QueueSize
    resultsClosed,
    wpc,            \* position of each uploadWorker
    wpart,          \* uploadWorker: p
    wattempt,       \* uploadWorker: attempt
    wbackoff,       \* uploadWorker: backoff, in ms (0 outside the sleep)
    werr,           \* uploadWorker: err
    wetag,          \* uploadWorker: *resp.ETag
    collPc,         \* position of collectResults
    collParts,      \* collectResults: parts, in arrival order
    completedParts, \* Upload: completedParts (what collectResults returned)
    abortCalls,     \* AbortMultipartUpload calls issued for the session
    abortErrs,      \* how many of them returned an error
    completeCalls,  \* CompleteMultipartUpload calls issued
    completeArg,    \* the part list of the CompleteMultipartUpload call
    bytesUploaded,  \* Uploader.bytesUploaded
    partsUploaded,  \* Uploader.partsUploaded
    published,      \* history: the parts sent on partsChan, in order
    chunkFailed,    \* history: a chunk failed terminally without cancellation
    checksumHash,   \* Uploader.checksumHash: the algorithm and the bytes written
    checksum,       \* Uploader.checksum
    hashLog,        \* history: the ranges written to checksumHash, in order
    wloaded,        \* uploadWorker: the counters loaded for the callback
    progressCalls,  \* history: the arguments of the ProgressCallback calls
    contributed,    \* history: the parts added to the counters, in order
    confIn,         \* SpecConfig: the function called and its arguments
    confOut,        \* SpecConfig: its result
    retryIn,        \* SpecRetry: the function called and its arguments
    retryOut,       \* SpecRetry: its result
    firstFatal,     \* history: the first fatal error that occurred in the run
    backendParts,   \* backend: the parts it accepted through UploadPart
    object,         \* backend: the object CompleteMultipartUpload assembled
    dcfg,           \* Downloader.config
    dpc,            \* position of Download
    dcalls,         \* Download calls made on the Downloader
    dbody,          \* Download: the bytes of resp.Body not read yet
    dblock,         \* Download: the block written to the sink, not hashed yet
    sink,           \* the bytes the caller's writer accepted
    dHash,          \* Downloader.checksumHash
    dChecksum,      \* Downloader.checksum
    calcIn,         \* SpecCalc: the inputs of CalculateOptimalPartSize
    calcOut,        \* SpecCalc: its result
    calcPc,
    cleanIn,        \* SpecCleanup: the cleanup flags and the bucket's uploads
    cleanPc,        \* position of runCleanup / CleanupIncompleteUploads
    cleanResult,    \* CleanupIncompleteUploads: result
    abortLog,       \* backend: the uploads AbortMultipartUpload was called for
    prompted,       \* runCleanup: the confirmation prompt was printed
    response,       \* runCleanup: response
    cleanErr        \* the error runCleanup returned

cfgVars == <<cfg, partSize, streamLen>>

envVars == <<ctxCancelled, userAborted, cancelledRunning>>

prodVars == <<remaining, prodPc, partNumber, partData, lastShort, published>>

mainVars == <<uploadID, mainPc, uploadErr, retErr, abortCalls, abortErrs,
              completeCalls,
              completeArg>>

workerVars == <<wpc, wpart, wattempt, wbackoff, werr, wetag, bytesUploaded,
                partsUploaded, chunkFailed>>

collVars == <<collPc, collParts, completedParts, collectorErr>>

chanVars == <<partsChan, partsClosed, resultsChan, resultsClosed>>

calcVars == <<calcIn, calcOut, calcPc>>

sumVars == <<checksumHash, checksum, hashLog>>

retryVars == <<retryIn, retryOut>>

confVars == <<confIn, confOut>>

cleanVars == <<cleanIn, cleanPc, cleanResult, abortLog, prompted, response,
               cleanErr>>

progVars == <<wloaded, progressCalls, contributed>>

downloadVars == <<dcfg, dpc, dcalls, dbody, dblock, sink, dHash, dChecksum>>

vars == <<cfgVars, envVars, prodVars, mainVars, workerVars, collVars,
          chanVars, ctxDone, calcVars, sumVars, backendParts, object,
          downloadVars, progVars, firstFatal, retryVars, confVars,
          cleanVars>>

(***************************************************************************)
(* Errors.  An error value is a record: the operation of the UploadError   *)
(* that wraps it ("" when unwrapped), the part number the operation names  *)
(* and the kind of the innermost cause.                                    *)
(***************************************************************************)
Err(op, part, cause) == [op |-> op, part |-> part, cause |-> cause]

Nil == Err("", 0, "nil")

\* An API error code: its text, its length and its first character.
Code(text, len, first) == [text |-> text, len |-> len, first |-> first]

NoCode == Code("", 0, "")

\* What errors.As / errors.Is find in an error.
\*   isNil    err == nil
\*   net      errors.As(err, &netErr): some error of the chain is a net.Error
\*   syscall  errors.As(err, &syscallErr): the chain holds a syscall.Errno
\*   api      errors.As(err, &apiErr), and apiErr.ErrorCode()
\*   ctx      "canceled" when errors.Is(err, context.Canceled), "deadline"
\*            when errors.Is(err, context.DeadlineExceeded), "" otherwise
ErrorClasses(isNil, net, sys, apiFound, code, ctx) ==
    [isNil |-> isNil, net |-> net, syscall |-> sys,
     api |-> [found |-> apiFound, code |-> code], ctx |-> ctx]

\* The classes of the errors the pipeline's calls return, by kind.
\*   net       a network error (timeout, broken connection)
\*   canceled  context.Canceled, bare (u.ctx.Err()) or wrapped by the SDK
\*   deadline  context.DeadlineExceeded, which has Timeout() and
\*             Temporary() and so is a net.Error too
\*   api       a backend API error with a non-transient code
\*   io        an error of the input reader
ErrClasses(kind) ==
    ErrorClasses(kind = "nil",
                 kind \in {"net", "deadline"},
                 FALSE,
                 kind = "api",
                 IF kind = "api" THEN Code("AccessDenied", 12, "A") ELSE NoCode,
                 IF kind \in {"canceled", "deadline"} THEN kind ELSE "")

\* errors.Is(err, context.Canceled), through any wrapping.
IsCancellation(e) == e.cause = "canceled"

\* RetryUnknown with a fault seeded: unclassified errors are given up on.
RetryUnknownNever == FALSE

\* uploader.go:346-347, the default: retry on unknown errors.
RetryUnknown == TRUE

\* isRetryableError on an error with classes c.
isRetryableError(c) ==
    IF c.isNil THEN FALSE
    ELSE IF c.net THEN TRUE
    ELSE IF c.syscall THEN TRUE
    ELSE IF /\ c.api.found
            /\ \/ c.api.code.text \in {"InternalError", "ServiceUnavailable",
                                       "SlowDown", "RequestTimeout"}
               \/ c.api.code.len >= 3 /\ c.api.code.first = "5"
         THEN TRUE
    ELSE IF c.ctx = "canceled" \/ c.ctx = "deadline" THEN FALSE
    ELSE RetryUnknown

\* CapBackoff with a fault seeded: the delay is never capped.
CapBackoffNever(backoffMs, maxRetryDelay) == backoffMs

\* uploader.go:355-358, the cap at MaxRetryDelay.
CapBackoff(backoffMs, maxRetryDelay) ==
    IF backoffMs > maxRetryDelay THEN maxRetryDelay ELSE backoffMs

\* math.Pow(x, y) for whole x >= 1 and y >= 0; exact while the value is
\* below 2^53, and the inputs tried keep it below 2^31.
RECURSIVE Pow(_, _)
Pow(x, y) == IF y = 0 THEN 1 ELSE x * Pow(x, y - 1)

\* calculateBackoff(attempt) in milliseconds (the time.Duration returned
\* is this many times time.Millisecond).
calculateBackoff(config, attempt) ==
    CapBackoff(config.RetryDelay * Pow(config.RetryMultiplier, attempt),
               config.MaxRetryDelay)

(***************************************************************************)
(* Helpers.                                                                *)
(***************************************************************************)
\* History: error e occurs; the first one of a run is remembered.
NoteFatal(e) == firstFatal' = IF firstFatal = Nil THEN e ELSE firstFatal

Min(a, b) == IF a < b THEN a ELSE b

WorkerIds == 1..cfg.Workers

NoPart == [number |-> 0, off |-> 0, len |-> 0]

\* The ETag the backend returns for an accepted UploadPart: an opaque
\* token that differs from part to part.
ETagOf(number) == 100 + number

\* A byte sequence taken from the input stream: a list of ranges
\* [off, len] of stream positions, adjacent ranges that continue each
\* other merged, so that equal lists are equal byte sequences.
BytesAppend(bytes, off, len) ==
    IF len = 0 THEN bytes
    ELSE IF bytes # <<>>
            /\ bytes[Len(bytes)].off + bytes[Len(bytes)].len = off
    THEN [bytes EXCEPT ![Len(bytes)].len = @ + len]
    ELSE Append(bytes, [off |-> off, len |-> len])

\* The whole input of `len` bytes, in source order.
WholeInput(len) == BytesAppend(<<>>, 0, len)

\* hash.Hash: md5.New() / sha256.New(), Write, Sum.  The digest of a hash
\* is determined by its algorithm and the bytes written, and differs
\* for different bytes or algorithms.
NilHash == [alg |-> "", bytes |-> <<>>]

NewHash(alg) == [alg |-> alg, bytes |-> <<>>]

\* HashWrite with a fault seeded: the bytes are not hashed.
HashWriteNothing(h, off, len) == h

HashWrite(h, off, len) == [h EXCEPT !.bytes = BytesAppend(@, off, len)]

\* hex.EncodeToString(h.Sum(nil)).
HexSum(h) == [alg |-> h.alg, of |-> h.bytes]

\* The empty string a checksum field holds before it is finalized.
NoChecksum == [alg |-> "", of |-> <<>>]

NoBlock == [off |-> 0, len |-> 0]

NoProgress == [bytes |-> 0, parts |-> 0]

\* ReadBlock with a fault seeded: what a block leaves of a range is lost.
ReadBlockSkipping(body, n) ==
    [block |-> [off |-> body[1].off, len |-> Min(body[1].len, n)],
     rest  |-> Tail(body)]

\* One Read of resp.Body into a buffer of n bytes: the block read (at most
\* n bytes, and at most to the end of the first range) and what is left.
ReadBlock(body, n) ==
    LET head == body[1]
    IN  IF head.len <= n
        THEN [block |-> head, rest |-> Tail(body)]
        ELSE [block |-> [off |-> head.off, len |-> n],
              rest  |-> <<[off |-> head.off + n, len |-> head.len - n]>>
                        \o Tail(body)]

\* ReadFull with a fault seeded: a single Read, which returns at most one
\* megabyte and no error while bytes are left.
ReadFullSingleRead(rem, size) ==
    LET n == Min(rem, Min(size, mbSize))
    IN  [n |-> n, err |-> IF n = 0 THEN "EOF" ELSE "nil"]

\* io.ReadFull(reader, buffer) on a reader with `rem` bytes left and a
\* buffer of `size` bytes: the bytes read and the error.
ReadFull(rem, size) ==
    LET n == Min(rem, size)
    IN  [n   |-> n,
         err |-> IF n = size THEN "nil"
                 ELSE IF n = 0 THEN "EOF" ELSE "ErrUnexpectedEOF"]

\* ShouldSend with a fault seeded: the `n > 0` test dropped, so the read that only
\* finds EOF publishes an empty part.
ShouldSendAlways(n) == TRUE

\* uploader.go:279, `if n > 0`.
ShouldSend(n) == n > 0

\* Insertion of one part into a list sorted by part number.
RECURSIVE InsertSorted(_, _)
InsertSorted(x, s) ==
    IF s = <<>> THEN <<x>>
    ELSE IF x.number < Head(s).number THEN <<x>> \o s
    ELSE <<Head(s)>> \o InsertSorted(x, Tail(s))

\* SortParts with a fault seeded: the sort left out, parts stay in arrival order.
SortPartsArrivalOrder(parts) == parts

\* sort.Slice(parts, less by PartNumber).
RECURSIVE SortParts(_)
SortParts(parts) ==
    IF parts = <<>> THEN <<>>
    ELSE InsertSorted(Head(parts), SortParts(Tail(parts)))

\* The stream lengths tried: the empty stream, one byte, whole multiples
\* of the part size, and MaxChunks chunks of which the last holds one byte.
StreamLens(ps) ==
    {1} \cup {k * ps : k \in 0..(MaxChunks - 1)}
        \cup {(MaxChunks - 1) * ps + 1}

\* Config.FileSize declared for a stream (Validate demands FileSize > 0).
DeclaredSize(len) == IF len > 0 THEN len ELSE 1

(***************************************************************************)
(* Init: the state after New(cfg) returned an Uploader.                    *)
(***************************************************************************)
\* A Config that passed Validate: w workers, a queue of q, r retries, for
\* a stream of len bytes; checksum calculation and the progress callback
\* as given, the checksum algorithm and the retry delays the default ones.
UploadConfig(w, q, r, len, sum, callback) ==
    [Workers |-> w, QueueSize |-> q, MaxRetries |-> r, MaxMemoryMB |-> 0,
     FileSize |-> DeclaredSize(len), ServiceLimits |-> PipelineLimits,
     CalculateChecksum |-> sum, ChecksumAlgorithm |-> "md5",
     ProgressCallback |-> callback,
     RetryDelay |-> 1000, MaxRetryDelay |-> 30000, RetryMultiplier |-> 2]

\* A Config that passed Validate for a file declared as one part of 5 MB
\* under limits of a single part; the stream handed to Upload need not
\* have the declared length.
SinglePartConfig ==
    [UploadConfig(1, 1, MaxRetriesBound, defaultMinPartSize, FALSE, FALSE)
        EXCEPT !.ServiceLimits = [PipelineLimits EXCEPT !.MaxParts = 1]]

CalcIdle ==
    /\ calcIn = [fileSize |-> 0, maxMemoryMB |-> 0, workers |-> 1,
                 queueSize |-> 1, limits |-> PipelineLimits]
    /\ calcOut = [size |-> 0, err |-> ""]
    /\ calcPc = "idle"

\* No call of isRetryableError or calculateBackoff under examination.
NoRetryCall ==
    [fn |-> "", err |-> ErrorClasses(TRUE, FALSE, FALSE, FALSE, NoCode, ""),
     config |-> [RetryDelay |-> 0, MaxRetryDelay |-> 0, RetryMultiplier |-> 0],
     attempt |-> 0]

NoRetryResult == [done |-> FALSE, retryable |-> FALSE, backoffMs |-> 0]

RetryIdle ==
    /\ retryIn = NoRetryCall
    /\ retryOut = NoRetryResult

\* No call of New, Config.Validate or ServiceLimits.Validate under
\* examination.
ConfIdle ==
    /\ confIn = [fn |-> ""]
    /\ confOut = [done |-> FALSE]

\* CleanupResult before CleanupIncompleteUploads has built one, and after
\* it returned nil.
NilResult ==
    [exists |-> FALSE, TotalFound |-> 0, TotalAborted |-> 0,
     Errors |-> <<>>, Uploads |-> <<>>]

\* The cleanup command is not run.
CleanIdle ==
    /\ cleanIn = [cmd |-> ""]
    /\ cleanPc = "idle"
    /\ cleanResult = NilResult
    /\ abortLog = <<>>
    /\ prompted = FALSE
    /\ response = ""
    /\ cleanErr = ""

PipelineInit(c, len) ==
    /\ cfg = c
    /\ partSize = CalculateOptimalPartSize(c.FileSize, c.MaxMemoryMB, c.Workers,
                                           c.QueueSize, c.ServiceLimits).size
    /\ streamLen = len
    /\ remaining = len
    /\ ctxDone = FALSE
    /\ ctxCancelled = FALSE
    /\ userAborted = FALSE
    /\ cancelledRunning = FALSE
    /\ uploadID = ""
    /\ mainPc = "init"
    /\ prodPc = "idle"
    /\ partNumber = 1
    /\ partData = 0
    /\ lastShort = FALSE
    /\ uploadErr = Nil
    /\ collectorErr = Nil
    /\ retErr = Nil
    /\ partsChan = <<>>
    /\ partsClosed = FALSE
    /\ resultsChan = <<>>
    /\ resultsClosed = FALSE
    /\ wpc = [w \in 1..c.Workers |-> "idle"]
    /\ wpart = [w \in 1..c.Workers |-> NoPart]
    /\ wattempt = [w \in 1..c.Workers |-> 0]
    /\ wbackoff = [w \in 1..c.Workers |-> 0]
    /\ werr = [w \in 1..c.Workers |-> "nil"]
    /\ wetag = [w \in 1..c.Workers |-> 0]
    /\ collPc = "idle"
    /\ collParts = <<>>
    /\ completedParts = <<>>
    /\ abortCalls = 0
    /\ abortErrs = 0
    /\ completeCalls = 0
    /\ completeArg = <<>>
    /\ bytesUploaded = 0
    /\ partsUploaded = 0
    /\ published = <<>>
    /\ chunkFailed = FALSE
    /\ checksumHash = NilHash
    /\ checksum = NoChecksum
    /\ hashLog = <<>>
    /\ firstFatal = Nil
    /\ backendParts = {}
    /\ wloaded = [w \in 1..c.Workers |-> NoProgress]
    /\ progressCalls = <<>>
    /\ contributed = <<>>
    /\ object = [exists |-> FALSE, bytes |-> <<>>]
    /\ dcfg = [CalculateChecksum |-> FALSE, ChecksumAlgorithm |-> ""]
    /\ dpc = "idle"
    /\ dcalls = 0
    /\ dbody = <<>>
    /\ dblock = NoBlock
    /\ sink = <<>>
    /\ dHash = NilHash
    /\ dChecksum = NoChecksum

Init ==
    /\ CalcIdle
    /\ RetryIdle
    /\ ConfIdle
    /\ CleanIdle
    /\ \E w \in 1..(MaxPipelineSlots - 1), q \in 1..(MaxPipelineSlots - 1),
          r \in {MaxRetriesBound}, len \in StreamLens(defaultMinPartSize),
          sum \in BOOLEAN, callback \in BOOLEAN :
          /\ w + q <= MaxPipelineSlots
          /\ sum \/ (w = 1 /\ q = 1)
          /\ callback => (sum /\ w = 2 /\ q = 1)
          /\ \/ PipelineInit(UploadConfig(w, q, r, len, sum, callback), len)
             \/ /\ w = 1 /\ q = 1 /\ ~sum /\ ~callback
                /\ len = 2 * defaultMinPartSize
                /\ PipelineInit(SinglePartConfig, len)

(***************************************************************************)
(* Abort (uploader.go:499-517): cancel u.ctx and, when a session exists,   *)
(* issue AbortMultipartUpload with a background context; the call may     *)
(* fail, and Abort then returns the error.  Its result is ignored by every *)
(* caller in Upload.                                                       *)
(***************************************************************************)
Abort ==
    /\ ctxDone' = TRUE
    /\ IF uploadID = ""
       THEN UNCHANGED <<abortCalls, abortErrs>>
       ELSE /\ abortCalls' = abortCalls + 1
            /\ abortErrs' \in {abortErrs, abortErrs + 1}

(***************************************************************************)
(* Upload, part 1: initializeMultipartUpload, then start the workers and   *)
(* the collector (uploader.go:136-179).                                    *)
(***************************************************************************)
BeginSession ==
    /\ mainPc = "init"
    /\ ~ctxDone
    /\ uploadID' = "upload-1"
    /\ checksumHash' = IF cfg.CalculateChecksum
                       THEN NewHash(cfg.ChecksumAlgorithm)
                       ELSE checksumHash
    /\ mainPc' = "produce"
    /\ prodPc' = "top"
    /\ wpc' = [w \in WorkerIds |-> "recv"]
    /\ collPc' = "run"
    /\ UNCHANGED <<cfgVars, confVars, cleanVars, retryVars, firstFatal, progVars, checksum, hashLog, downloadVars, object, backendParts, envVars, ctxDone, calcVars, chanVars, remaining,
                   partNumber, partData, lastShort, published, uploadErr,
                   retErr, abortCalls, abortErrs, completeCalls, completeArg, wpart,
                   wattempt, wbackoff, werr, wetag, bytesUploaded,
                   partsUploaded,
                   chunkFailed, collParts, completedParts,
                   collectorErr>>

\* CreateMultipartUpload fails (always, when u.ctx is already cancelled):
\* Upload returns before the deferred abort is registered.
BeginFails ==
    /\ mainPc = "init"
    /\ retErr' = Err("CreateMultipartUpload", 0,
                     IF ctxDone THEN "canceled" ELSE "api")
    /\ NoteFatal(Err("CreateMultipartUpload", 0,
                      IF ctxDone THEN "canceled" ELSE "api"))
    /\ mainPc' = "returned"
    /\ UNCHANGED <<cfgVars, confVars, cleanVars, retryVars, progVars, sumVars, downloadVars, object, backendParts, envVars, ctxDone, calcVars, chanVars, prodVars,
                   workerVars, collVars, uploadID, uploadErr, abortCalls, abortErrs,
                   completeCalls, completeArg>>

(***************************************************************************)
(* produceparts (uploader.go:260-306), run by Upload's own goroutine;      *)
(* on its return Upload stores uploadErr and closes partsChan (182-183).   *)
(***************************************************************************)
ProducerReturn(err) ==
    /\ uploadErr' = err
    /\ NoteFatal(err)
    /\ partsClosed' = TRUE
    /\ prodPc' = "done"
    /\ mainPc' = "waitWorkers"
    /\ UNCHANGED <<cfgVars, confVars, cleanVars, retryVars, progVars, sumVars, downloadVars, object, backendParts, envVars, ctxDone, calcVars, workerVars, collVars,
                   partsChan, resultsChan, resultsClosed, uploadID, retErr,
                   abortCalls, abortErrs, completeCalls, completeArg, partNumber,
                   published, lastShort>>

\* Loop top, ctx.Done() is ready: return ctx.Err().
ProducerCancelled ==
    /\ mainPc = "produce" /\ prodPc = "top"
    /\ ctxDone
    /\ UNCHANGED <<remaining, partData>>
    /\ ProducerReturn(Err("", 0, "canceled"))

\* Loop top, not cancelled: io.ReadFull fails with a real read error.
ProducerReadError ==
    /\ mainPc = "produce" /\ prodPc = "top"
    /\ ~ctxDone
    /\ remaining > 0
    /\ UNCHANGED <<remaining, partData>>
    /\ ProducerReturn(Err("reading data", 0, "io"))

\* Loop top, not cancelled: io.ReadFull reads n bytes; n > 0 is copied
\* into partData, n = 0 (EOF) ends the loop.
ProducerRead ==
    /\ mainPc = "produce" /\ prodPc = "top"
    /\ ~ctxDone
    /\ LET r == ReadFull(remaining, partSize)
       IN  /\ remaining' = remaining - r.n
           /\ IF ShouldSend(r.n)
              THEN /\ IF checksumHash # NilHash
                      THEN /\ checksumHash' = HashWrite(checksumHash,
                                                  streamLen - remaining, r.n)
                           /\ hashLog' = Append(hashLog,
                                  [number |-> partNumber,
                                   off |-> streamLen - remaining,
                                   len |-> r.n])
                      ELSE UNCHANGED <<checksumHash, hashLog>>
                   /\ partData' = r.n
                   /\ lastShort' = (r.err # "nil")
                   /\ prodPc' = "send"
                   /\ UNCHANGED <<cfgVars, confVars, cleanVars, retryVars, firstFatal, progVars, checksum, downloadVars, object, backendParts, envVars, ctxDone, calcVars,
                                  workerVars, collVars, chanVars, mainVars,
                                  partNumber, published>>
              ELSE /\ partData' = 0
                   /\ IF r.err # "nil"
                      THEN ProducerReturn(Nil)
                      ELSE /\ prodPc' = "top"
                           /\ UNCHANGED <<cfgVars, confVars, cleanVars, retryVars, firstFatal, progVars, sumVars, downloadVars, object, backendParts, envVars, ctxDone, calcVars,
                                          workerVars, collVars, chanVars,
                                          mainVars, partNumber, published,
                                          lastShort>>

\* The select at uploader.go:291-296, case partsChan <- part.
ProducerSend ==
    /\ mainPc = "produce" /\ prodPc = "send"
    /\ Len(partsChan) < cfg.QueueSize
    /\ LET p == [number |-> partNumber,
                 off |-> streamLen - remaining - partData,
                 len |-> partData]
       IN  /\ partsChan' = Append(partsChan, p)
           /\ published' = Append(published, p)
    /\ partNumber' = partNumber + 1
    /\ partData' = 0
    /\ UNCHANGED <<remaining>>
    /\ IF lastShort
       THEN /\ uploadErr' = Nil
            /\ partsClosed' = TRUE
            /\ prodPc' = "done"
            /\ mainPc' = "waitWorkers"
            /\ UNCHANGED <<lastShort, uploadID, retErr, abortCalls, abortErrs,
                           completeCalls, completeArg>>
       ELSE /\ prodPc' = "top"
            /\ UNCHANGED <<lastShort, mainVars, partsClosed>>
    /\ UNCHANGED <<cfgVars, confVars, cleanVars, retryVars, firstFatal, progVars, sumVars, downloadVars, object, backendParts, envVars, ctxDone, calcVars, workerVars, collVars,
                   resultsChan, resultsClosed>>

\* The select at uploader.go:291-296, case <-u.ctx.Done().
ProducerSendCancelled ==
    /\ mainPc = "produce" /\ prodPc = "send"
    /\ ctxDone
    /\ partData' = 0
    /\ UNCHANGED <<remaining>>
    /\ ProducerReturn(Err("", 0, "canceled"))

(***************************************************************************)
(* uploadWorker (uploader.go:364-452).                                     *)
(***************************************************************************)
WorkerFrame ==
    UNCHANGED <<cfgVars, confVars, cleanVars, retryVars, progVars, sumVars, downloadVars, object, backendParts, envVars, ctxDone, calcVars, prodVars, mainVars,
                collVars, partsClosed, resultsClosed>>

\* AttemptOrCancel with a fault seeded: the cancellation check left out.
AttemptOrCancelUnchecked(w, number) ==
    /\ werr' = [werr EXCEPT ![w] = "nil"]
    /\ wpc' = [wpc EXCEPT ![w] = "uploading"]
    /\ UNCHANGED firstFatal

\* The head of the retry loop (lines 381-388) for a worker holding a part:
\* on cancellation it publishes ctx.Err() and goes to the next part, else
\* it starts the UploadPart call.
AttemptOrCancel(w, number) ==
    IF ctxDone
    THEN /\ werr' = [werr EXCEPT ![w] = "canceled"]
         /\ wpc' = [wpc EXCEPT ![w] = "publish"]
         /\ NoteFatal(Err("uploading part", number, "canceled"))
    ELSE /\ werr' = [werr EXCEPT ![w] = "nil"]
         /\ wpc' = [wpc EXCEPT ![w] = "uploading"]
         /\ UNCHANGED firstFatal

\* The workers run the same code and nothing tells them apart, so of the
\* workers waiting on partsChan the lowest-numbered one is taken to be the
\* one the runtime wakes: every run is a renaming of such a run.
FirstWaiting(w) == \A v \in WorkerIds : v < w => wpc[v] # "recv"

\* `for p := range partsChan` receives a part; the cancellation check of
\* lines 369-374 and the first pass through the head of the retry loop
\* follow without blocking and read only ctx.Done().
WorkerRecv(w) ==
    /\ wpc[w] = "recv"
    /\ FirstWaiting(w)
    /\ partsChan # <<>>
    /\ wpart' = [wpart EXCEPT ![w] = Head(partsChan)]
    /\ partsChan' = Tail(partsChan)
    /\ wattempt' = [wattempt EXCEPT ![w] = 0]
    /\ AttemptOrCancel(w, Head(partsChan).number)
    /\ UNCHANGED <<resultsChan, wetag, wbackoff, bytesUploaded,
                   partsUploaded, chunkFailed>>
    /\ WorkerFrame

\* partsChan is closed and drained: the range loop ends, wg.Done().
WorkerExit(w) ==
    /\ wpc[w] = "recv"
    /\ FirstWaiting(w)
    /\ partsChan = <<>> /\ partsClosed
    /\ wpc' = [wpc EXCEPT ![w] = "done"]
    /\ UNCHANGED <<partsChan, resultsChan, wpart, wattempt, wbackoff, werr,
                   wetag, bytesUploaded, partsUploaded, chunkFailed>>
    /\ UNCHANGED firstFatal
    /\ WorkerFrame

\* UploadPart returns without error (lines 399-402).
WorkerUploadOk(w) ==
    /\ wpc[w] = "uploading"
    /\ wetag' = [wetag EXCEPT ![w] = ETagOf(wpart[w].number)]
    /\ werr' = [werr EXCEPT ![w] = "nil"]
    /\ wpc' = [wpc EXCEPT ![w] = "publish"]
    /\ backendParts' = backendParts \cup
           {[number |-> wpart[w].number, off |-> wpart[w].off,
             len |-> wpart[w].len, etag |-> ETagOf(wpart[w].number)]}
    /\ UNCHANGED <<partsChan, resultsChan, wpart, wattempt, wbackoff,
                   bytesUploaded, partsUploaded, chunkFailed>>
    /\ UNCHANGED <<cfgVars, confVars, cleanVars, retryVars, firstFatal, progVars, sumVars, downloadVars, object, envVars, ctxDone,
                   calcVars, prodVars, mainVars, collVars, partsClosed,
                   resultsClosed>>

\* The errors an UploadPart call can return: a transient network error at
\* any time, a cancellation error once u.ctx is cancelled.
UploadPartErrors ==
    IF ctxDone THEN {"net", "canceled"} ELSE {"net"}

\* AfterFailure with a fault seeded: the loop gives up one attempt early.
AfterFailureOneShort(kind, attempt) ==
    IF ~isRetryableError(ErrClasses(kind)) THEN "fail"
    ELSE IF attempt + 1 >= cfg.MaxRetries THEN "fail"
    ELSE "sleep"

\* What the retry loop does with a failed attempt (lines 404-425):
\* "fail" leaves the loop with err, "sleep" goes to the backoff select.
AfterFailure(kind, attempt) ==
    IF ~isRetryableError(ErrClasses(kind)) THEN "fail"
    ELSE IF attempt = cfg.MaxRetries THEN "fail"
    ELSE "sleep"

\* UploadPart returns an error.
WorkerUploadFails(w) ==
    /\ wpc[w] = "uploading"
    /\ \E kind \in UploadPartErrors :
          /\ werr' = [werr EXCEPT ![w] = kind]
          /\ IF AfterFailure(kind, wattempt[w]) = "fail"
             THEN /\ wpc' = [wpc EXCEPT ![w] = "publish"]
                  /\ chunkFailed' = (chunkFailed \/ ErrClasses(kind).ctx = "")
                  /\ NoteFatal(Err("uploading part", wpart[w].number, kind))
                  /\ UNCHANGED wbackoff
             ELSE /\ wbackoff' = [wbackoff EXCEPT
                         ![w] = calculateBackoff(cfg, wattempt[w])]
                  /\ wpc' = [wpc EXCEPT ![w] = "backoff"]
                  /\ UNCHANGED <<chunkFailed, firstFatal>>
    /\ UNCHANGED <<partsChan, resultsChan, wpart, wattempt, wetag,
                   bytesUploaded, partsUploaded>>
    /\ WorkerFrame

\* The backoff select (lines 419-425), case <-time.After(backoff):
\* attempt++ and back to the head of the retry loop.
WorkerBackoffElapsed(w) ==
    /\ wpc[w] = "backoff"
    /\ wattempt' = [wattempt EXCEPT ![w] = @ + 1]
    /\ wbackoff' = [wbackoff EXCEPT ![w] = 0]
    /\ AttemptOrCancel(w, wpart[w].number)
    /\ UNCHANGED <<partsChan, resultsChan, wpart, wetag, bytesUploaded,
                   partsUploaded, chunkFailed>>
    /\ WorkerFrame

\* The backoff select, case <-u.ctx.Done(): err = ctx.Err(), break.
WorkerBackoffCancelled(w) ==
    /\ wpc[w] = "backoff"
    /\ ctxDone
    /\ werr' = [werr EXCEPT ![w] = "canceled"]
    /\ wpc' = [wpc EXCEPT ![w] = "publish"]
    /\ wbackoff' = [wbackoff EXCEPT ![w] = 0]
    /\ UNCHANGED <<partsChan, resultsChan, wpart, wattempt, wetag,
                   bytesUploaded, partsUploaded, chunkFailed>>
    /\ NoteFatal(Err("uploading part", wpart[w].number, "canceled"))
    /\ WorkerFrame

\* CountsProgress with a fault seeded: failed parts are counted too.
CountsProgressAlways(err) == TRUE

\* Lines 428-448: the progress counters are updated only for a part
\* whose final err is nil.
CountsProgress(err) == err = "nil"

\* The frame of the worker steps that touch the progress state.
WorkerProgressFrame ==
    UNCHANGED <<cfgVars, confVars, cleanVars, retryVars, firstFatal, sumVars, downloadVars, object, backendParts,
                envVars, ctxDone, calcVars, prodVars, mainVars, collVars,
                partsClosed, resultsClosed>>

\* The end of an iteration: p, resp, err and attempt are locals of it.
EndIteration(w) ==
    /\ wpc' = [wpc EXCEPT ![w] = "recv"]
    /\ wpart' = [wpart EXCEPT ![w] = NoPart]
    /\ wattempt' = [wattempt EXCEPT ![w] = 0]
    /\ werr' = [werr EXCEPT ![w] = "nil"]
    /\ wetag' = [wetag EXCEPT ![w] = 0]

\* `resultsChan <- completedPart{...}` (lines 371, 385, 430, 435): a plain
\* send, which blocks while the channel is full.  After a successful
\* result the two atomic counters are added to (lines 441-443), which
\* never blocks; with a ProgressCallback the worker goes on to load them.
WorkerPublish(w) ==
    /\ wpc[w] = "publish"
    /\ Len(resultsChan) < cfg.QueueSize
    /\ resultsChan' = Append(resultsChan,
           [number |-> wpart[w].number,
            etag   |-> IF werr[w] = "nil" THEN wetag[w] ELSE 0,
            err    |-> werr[w]])
    /\ IF CountsProgress(werr[w])
       THEN /\ bytesUploaded' = bytesUploaded + wpart[w].len
            /\ partsUploaded' = partsUploaded + 1
            /\ contributed' = Append(contributed, wpart[w].number)
       ELSE UNCHANGED <<bytesUploaded, partsUploaded, contributed>>
    /\ IF CountsProgress(werr[w]) /\ cfg.ProgressCallback
       THEN /\ wpc' = [wpc EXCEPT ![w] = "load"]
            /\ UNCHANGED <<wpart, wattempt, werr, wetag>>
       ELSE EndIteration(w)
    /\ UNCHANGED <<partsChan, chunkFailed, wloaded, progressCalls, wbackoff>>
    /\ WorkerProgressFrame

\* Line 447, the arguments of the call: u.bytesUploaded.Load() and
\* u.partsUploaded.Load().
WorkerLoadProgress(w) ==
    /\ wpc[w] = "load"
    /\ wloaded' = [wloaded EXCEPT
                      ![w] = [bytes |-> bytesUploaded, parts |-> partsUploaded]]
    /\ wpc' = [wpc EXCEPT ![w] = "call"]
    /\ UNCHANGED <<partsChan, resultsChan, wpart, wattempt, wbackoff, werr,
                   wetag, bytesUploaded, partsUploaded, chunkFailed,
                   progressCalls, contributed>>
    /\ WorkerProgressFrame

\* Line 447, the call: u.config.ProgressCallback is invoked with the
\* values loaded.
WorkerCallback(w) ==
    /\ wpc[w] = "call"
    /\ progressCalls' = Append(progressCalls, wloaded[w])
    /\ wloaded' = [wloaded EXCEPT ![w] = NoProgress]
    /\ EndIteration(w)
    /\ UNCHANGED <<partsChan, resultsChan, wbackoff, bytesUploaded,
                   partsUploaded, chunkFailed, contributed>>
    /\ WorkerProgressFrame

\* The worker pool: each step is taken by some worker.
SomeWorkerRecv == \E w \in WorkerIds : WorkerRecv(w)

SomeWorkerExit == \E w \in WorkerIds : WorkerExit(w)

SomeWorkerUploadOk == \E w \in WorkerIds : WorkerUploadOk(w)

SomeWorkerUploadFails == \E w \in WorkerIds : WorkerUploadFails(w)

SomeWorkerBackoffElapsed == \E w \in WorkerIds : WorkerBackoffElapsed(w)

SomeWorkerBackoffCancelled == \E w \in WorkerIds : WorkerBackoffCancelled(w)

SomeWorkerPublish == \E w \in WorkerIds : WorkerPublish(w)

SomeWorkerLoadProgress == \E w \in WorkerIds : WorkerLoadProgress(w)

SomeWorkerCallback == \E w \in WorkerIds : WorkerCallback(w)

(***************************************************************************)
(* collectResults (uploader.go:455-478).                                   *)
(***************************************************************************)
\* CollectorError with a fault seeded: the part number is left out.
CollectorErrorUnnumbered(result) == Err("uploading part", 0, result.err)

\* Lines 460-463: the UploadError collectResults returns for an error
\* result, its Operation naming the part and its cause the result's error.
CollectorError(result) == Err("uploading part", result.number, result.err)

\* One iteration of `for result := range resultsChan`: an error result
\* makes collectResults return at once, a good one is appended.
CollectResult ==
    /\ collPc = "run"
    /\ resultsChan # <<>>
    /\ LET result == Head(resultsChan)
       IN  IF result.err # "nil"
           THEN /\ collectorErr' = CollectorError(result)
                /\ completedParts' = <<>>
                /\ collPc' = "done"
                /\ UNCHANGED collParts
           ELSE /\ collParts' = Append(collParts,
                       [number |-> result.number, etag |-> result.etag])
                /\ UNCHANGED <<collPc, completedParts, collectorErr>>
    /\ resultsChan' = Tail(resultsChan)
    /\ UNCHANGED <<cfgVars, confVars, cleanVars, retryVars, firstFatal, progVars, sumVars, downloadVars, object, backendParts, envVars, ctxDone, calcVars, prodVars, mainVars,
                   workerVars, partsChan, partsClosed, resultsClosed>>

\* resultsChan is closed and drained: sort and return the parts.
CollectClosed ==
    /\ collPc = "run"
    /\ resultsChan = <<>> /\ resultsClosed
    /\ completedParts' = SortParts(collParts)
    /\ collPc' = "done"
    /\ UNCHANGED <<cfgVars, confVars, cleanVars, retryVars, firstFatal, progVars, sumVars, downloadVars, object, backendParts, envVars, ctxDone, calcVars, prodVars, mainVars,
                   workerVars, chanVars, collParts, collectorErr>>

(***************************************************************************)
(* Upload, part 2 (uploader.go:185-213) and the deferred abort (152-158).  *)
(***************************************************************************)
\* WorkersDone with a fault seeded: one worker's exit is enough.
WorkersDoneAny == \E w \in WorkerIds : wpc[w] = "done"

\* workerWg.Wait() (line 186) can return: every worker has called Done.
WorkersDone == \A w \in WorkerIds : wpc[w] = "done"

\* workerWg.Wait() returns; close(resultsChan).
MainWorkersDone ==
    /\ mainPc = "waitWorkers"
    /\ WorkersDone
    /\ resultsClosed' = TRUE
    /\ mainPc' = "waitCollector"
    /\ UNCHANGED <<cfgVars, confVars, cleanVars, retryVars, firstFatal, progVars, sumVars, downloadVars, object, backendParts, envVars, ctxDone, calcVars, prodVars, workerVars,
                   collVars, partsChan, partsClosed, resultsChan, uploadID,
                   uploadErr, retErr, abortCalls, abortErrs, completeCalls, completeArg>>

\* UploadDecision with a fault seeded: the collectorErr test left out.
UploadDecisionIgnoringCollector(uErr, cErr) ==
    IF uErr # Nil THEN "returnUploadErr" ELSE "complete"

\* Lines 192-200: which way Upload goes once the collector has returned.
UploadDecision(uErr, cErr) ==
    IF uErr # Nil THEN "returnUploadErr"
    ELSE IF cErr # Nil THEN "returnCollectorErr"
    ELSE "complete"

\* DeferredAbort with a fault seeded: the session is aborted at every
\* return.
DeferredAbortAlways(uErr) == Abort

\* DeferredAbort with a fault seeded: a failed abort is tried again.
DeferredAbortRetrying(uErr) ==
    IF uErr # Nil
    THEN /\ ctxDone' = TRUE
         /\ abortCalls' = abortCalls + 2
         /\ abortErrs' = abortErrs + 1
    ELSE UNCHANGED <<ctxDone, abortCalls, abortErrs>>

\* The deferred function (lines 154-158) at a return with uploadErr = uErr.
DeferredAbort(uErr) ==
    IF uErr # Nil
    THEN Abort
    ELSE UNCHANGED <<ctxDone, abortCalls, abortErrs>>

\* collectorWg.Wait() returns; Upload returns an error or issues
\* CompleteMultipartUpload(u.ctx, completedParts).  With u.ctx already
\* cancelled the call fails in the client.
MainDecide ==
    /\ mainPc = "waitCollector"
    /\ collPc = "done"
    /\ LET d == UploadDecision(uploadErr, collectorErr)
       IN  \/ /\ d = "returnUploadErr"
              /\ retErr' = uploadErr
              /\ mainPc' = "returned"
              /\ DeferredAbort(uploadErr)
              /\ UNCHANGED <<uploadErr, completeCalls, completeArg,
                             firstFatal>>
           \/ /\ d = "returnCollectorErr"
              /\ retErr' = collectorErr
              /\ mainPc' = "returned"
              /\ DeferredAbort(uploadErr)
              /\ UNCHANGED <<uploadErr, completeCalls, completeArg,
                             firstFatal>>
           \/ /\ d = "complete"
              /\ completeCalls' = completeCalls + 1
              /\ completeArg' = completedParts
              /\ IF ctxDone
                 THEN LET e == Err("CompleteMultipartUpload", 0, "canceled")
                      IN  /\ uploadErr' = e
                          /\ retErr' = e
                          /\ mainPc' = "returned"
                          /\ DeferredAbort(e)
                          /\ NoteFatal(e)
                 ELSE /\ mainPc' = "complete"
                      /\ UNCHANGED <<uploadErr, retErr, ctxDone, abortCalls, abortErrs,
                                     firstFatal>>
    /\ UNCHANGED <<cfgVars, confVars, cleanVars, retryVars, progVars, sumVars, downloadVars, object, backendParts, envVars, calcVars, prodVars, workerVars,
                   collVars, chanVars, uploadID>>

\* The parts the backend holds under an entry of a completion list.
StoredPart(e) ==
    {p \in backendParts : p.number = e.number /\ p.etag = e.etag}

Range(seq) == {seq[i] : i \in 1..Len(seq)}

\* The backend's CompleteMultipartUpload: the object is the data of the
\* listed parts, concatenated in the order of the list.
RECURSIVE Assemble(_)
Assemble(list) ==
    IF list = <<>> THEN <<>>
    ELSE LET p == CHOOSE p \in StoredPart(list[Len(list)]) : TRUE
         IN  BytesAppend(Assemble(SubSeq(list, 1, Len(list) - 1)),
                         p.off, p.len)

\* FinalizeChecksum with a fault seeded: a digest is stored although no
\* hash was created.
FinalizeChecksumWithoutHash(h, c) ==
    HexSum(IF h # NilHash THEN h ELSE NewHash("md5"))

\* Lines 206-210: u.checksum after the finalization, from checksumHash and
\* the value u.checksum held.
FinalizeChecksum(h, c) == IF h # NilHash THEN HexSum(h) ELSE c

\* CompleteMultipartUpload succeeds and Upload finalizes the checksum
\* (lines 200-210).
MainCompleteOk ==
    /\ mainPc = "complete"
    /\ \A e \in Range(completeArg) : StoredPart(e) # {}
    /\ object' = [exists |-> TRUE, bytes |-> Assemble(completeArg)]
    /\ checksum' = FinalizeChecksum(checksumHash, checksum)
    /\ mainPc' = "finalized"
    /\ UNCHANGED <<cfgVars, confVars, cleanVars, retryVars, firstFatal, progVars, checksumHash, hashLog, downloadVars, backendParts,
                   envVars, calcVars, prodVars, workerVars,
                   collVars, chanVars, uploadID, uploadErr, retErr,
                   completeCalls, completeArg, abortCalls, abortErrs, ctxDone>>

\* Upload returns nil (line 212); the deferred function runs.
MainReturnNil ==
    /\ mainPc = "finalized"
    /\ retErr' = Nil
    /\ mainPc' = "returned"
    /\ DeferredAbort(uploadErr)
    /\ UNCHANGED <<cfgVars, confVars, cleanVars, retryVars, firstFatal, progVars, sumVars, downloadVars, object, backendParts,
                   envVars, calcVars, prodVars, workerVars,
                   collVars, chanVars, uploadID, uploadErr, completeCalls,
                   completeArg>>

\* CompleteMultipartUpload fails: uploadErr = err, return err (200-203).
MainCompleteFails ==
    /\ mainPc = "complete"
    /\ \E kind \in (IF ctxDone THEN {"api", "canceled"} ELSE {"api"}) :
          LET e == Err("CompleteMultipartUpload", 0, kind)
          IN  /\ uploadErr' = e
              /\ retErr' = e
              /\ DeferredAbort(e)
              /\ NoteFatal(e)
    /\ mainPc' = "returned"
    /\ UNCHANGED <<cfgVars, confVars, cleanVars, retryVars, progVars, sumVars, downloadVars, object, backendParts, envVars, calcVars, prodVars, workerVars,
                   collVars, chanVars, uploadID, completeCalls, completeArg>>

(***************************************************************************)
(* The caller, concurrently with Upload: it cancels Config.Context or      *)
(* calls Abort(), at most once in a run.                                   *)
(***************************************************************************)
Cancellable == mainPc # "returned" /\ ~ctxCancelled /\ ~userAborted

\* Upload is between the start of the pipeline and its decision to
\* complete or to return (uploader.go:160-197).
PipelineRunning == mainPc \in {"produce", "waitWorkers", "waitCollector"}

CancelContext ==
    /\ Cancellable
    /\ ctxCancelled' = TRUE
    /\ ctxDone' = TRUE
    /\ cancelledRunning' = PipelineRunning
    /\ UNCHANGED <<cfgVars, confVars, cleanVars, retryVars, firstFatal, progVars, sumVars, downloadVars, object, backendParts, userAborted, calcVars, prodVars, mainVars,
                   workerVars, collVars, chanVars>>

UserAbort ==
    /\ Cancellable
    /\ userAborted' = TRUE
    /\ cancelledRunning' = PipelineRunning
    /\ Abort
    /\ UNCHANGED <<cfgVars, confVars, cleanVars, retryVars, firstFatal, progVars, sumVars, downloadVars, object, backendParts, ctxCancelled, calcVars, prodVars, workerVars,
                   collVars, chanVars, uploadID, mainPc, uploadErr, retErr,
                   completeCalls, completeArg>>

(***************************************************************************)
(* Download (unnamed/part_003:147-198), called for the same key once       *)
(* Upload has returned.                                                    *)
(***************************************************************************)
DownloadConfigs ==
    {[CalculateChecksum |-> FALSE, ChecksumAlgorithm |-> ""]} \cup
    [CalculateChecksum : {TRUE}, ChecksumAlgorithm : {"", "md5", "sha256"}]

\* Lines 149-155: the hash Download creates for a configuration.
DownloadHash(c) ==
    IF c.CalculateChecksum
    THEN IF c.ChecksumAlgorithm = "" \/ c.ChecksumAlgorithm = "md5"
         THEN NewHash("md5")
         ELSE IF c.ChecksumAlgorithm = "sha256"
         THEN NewHash("sha256")
         ELSE NilHash
    ELSE NilHash

DownloadFrame ==
    UNCHANGED <<cfgVars, confVars, cleanVars, retryVars, firstFatal, progVars, sumVars, object, backendParts, envVars, ctxDone,
                calcVars, prodVars, mainVars, workerVars, collVars, chanVars>>

\* Download is called: on a new Downloader, built for any configuration,
\* or once more, with a new writer, on one whose Download has returned.
\* Lines 149-155 create the hash, or leave checksumHash as it is.
DownloadCalled ==
    /\ mainPc = "returned"
    /\ \/ dpc = "idle"
       \/ dpc \in {"done", "failed"} /\ dcalls < MaxDownloads
    /\ dcalls' = dcalls + 1
    /\ \E c \in IF dpc = "idle" THEN DownloadConfigs ELSE {dcfg} :
          /\ dcfg' = c
          /\ dHash' = IF DownloadHash(c) # NilHash THEN DownloadHash(c)
                      ELSE dHash
    /\ sink' = <<>>
    /\ dblock' = NoBlock
    /\ UNCHANGED dChecksum

\* Download starts: the hash is created, GetObject returns the body.
DownloadBegin ==
    /\ DownloadCalled
    /\ object.exists
    /\ dbody' = object.bytes
    /\ dpc' = "copy"
    /\ DownloadFrame

\* GetObject fails (always, when no object was completed under the key).
DownloadGetFails ==
    /\ DownloadCalled
    /\ dbody' = <<>>
    /\ dpc' = "failed"
    /\ DownloadFrame

\* io.Copy reads a block; the MultiWriter writes it to the caller's writer
\* first (line 168).
DownloadWriteSink ==
    /\ dpc = "copy" /\ dbody # <<>>
    /\ LET r == ReadBlock(dbody, DownloadBlockMB * mbSize)
       IN  /\ dbody' = r.rest
           /\ sink' = BytesAppend(sink, r.block.off, r.block.len)
           /\ IF dHash # NilHash
              THEN dblock' = r.block /\ dpc' = "hash"
              ELSE UNCHANGED <<dblock, dpc>>
    /\ UNCHANGED <<dcalls, dcfg, dHash, dChecksum>>
    /\ DownloadFrame

\* The MultiWriter then writes the block to the hash (lines 169-171).
DownloadWriteHash ==
    /\ dpc = "hash"
    /\ dHash' = HashWrite(dHash, dblock.off, dblock.len)
    /\ dblock' = NoBlock
    /\ dpc' = "copy"
    /\ UNCHANGED <<dcalls, dcfg, dbody, sink, dChecksum>>
    /\ DownloadFrame

\* The body's Read or the caller's writer fails: io.Copy returns the
\* error and Download returns it wrapped (lines 187-189).
DownloadCopyFails ==
    /\ dpc = "copy" /\ dbody # <<>>
    /\ dpc' = "failed"
    /\ UNCHANGED <<dcalls, dcfg, dbody, dblock, sink, dHash, dChecksum>>
    /\ DownloadFrame

\* The body is at EOF: the checksum is finalized, Download returns nil.
DownloadFinish ==
    /\ dpc = "copy" /\ dbody = <<>>
    /\ dChecksum' = IF dHash # NilHash THEN HexSum(dHash) ELSE dChecksum
    /\ dpc' = "done"
    /\ UNCHANGED <<dcalls, dcfg, dbody, dblock, sink, dHash>>
    /\ DownloadFrame

DownloadNext ==
    \/ DownloadBegin
    \/ DownloadGetFails
    \/ DownloadWriteSink
    \/ DownloadWriteHash
    \/ DownloadCopyFails
    \/ DownloadFinish

(***************************************************************************)
(* The pipeline's specification.                                           *)
(***************************************************************************)
ProgramNext ==
    \/ BeginSession
    \/ BeginFails
    \/ ProducerCancelled
    \/ ProducerReadError
    \/ ProducerRead
    \/ ProducerSend
    \/ ProducerSendCancelled
    \/ SomeWorkerRecv
    \/ SomeWorkerExit
    \/ SomeWorkerUploadOk
    \/ SomeWorkerUploadFails
    \/ SomeWorkerBackoffElapsed
    \/ SomeWorkerBackoffCancelled
    \/ SomeWorkerPublish
    \/ SomeWorkerLoadProgress
    \/ SomeWorkerCallback
    \/ CollectResult
    \/ CollectClosed
    \/ MainWorkersDone
    \/ MainDecide
    \/ MainCompleteOk
    \/ MainReturnNil
    \/ MainCompleteFails

Next ==
    \/ ProgramNext
    \/ DownloadNext
    \/ CancelContext
    \/ UserAbort

Spec == Init /\ [][Next]_vars

\* The pipeline under the scheduling the Go runtime gives it: a goroutine
\* that can take a step is not left waiting forever, and a backend call
\* that was issued returns.  The callers' steps (cancel, Abort, Download)
\* are under no obligation to happen.
FairSpec == Spec /\ WF_vars(ProgramNext)

(***************************************************************************)
(* SpecCalc: CalculateOptimalPartSize applied to bounded inputs.           *)
(***************************************************************************)
\* Part-size limits tried: whole and fractional megabytes, and one
\* MinPartSize below the S3 minimum (invalid limits).
CalcMinSizes ==
    {4 * mbSize, 5 * mbSize, 5 * mbSize + mbSize \div 4,
     5 * mbSize + mbSize \div 2 + 1}

CalcMaxSizes ==
    {5 * mbSize, 6 * mbSize, 6 * mbSize + mbSize \div 2 - 1,
     6 * mbSize + mbSize \div 2, 8 * mbSize}

CalcLimits ==
    [MinPartSize : CalcMinSizes, MaxPartSize : CalcMaxSizes,
     MaxParts : 0..MaxPartsBound]

\* File sizes tried: every quarter megabyte up to the bound, and the one
\* and two bytes after it.
CalcFileSizes ==
    {q * (mbSize \div 4) + d : q \in 0..MaxFileQuarterMB, d \in 0..2} \ {0}

\* workers and queueSize tried: a queue of one with each number of
\* workers, and no slot at all (the function is exported and takes any
\* value).
CalcSlots == {<<w, 1>> : w \in 1..MaxCalcWorkers} \cup {<<0, 0>>}

CalcInputs ==
    {[fileSize |-> f, maxMemoryMB |-> m, workers |-> sl[1],
      queueSize |-> sl[2], limits |-> l] :
        f \in CalcFileSizes, m \in 0..MaxMemoryBound, sl \in CalcSlots,
        l \in CalcLimits}

InitCalc ==
    /\ calcIn \in CalcInputs
    /\ calcOut = [size |-> 0, err |-> ""]
    /\ calcPc = "input"
    /\ RetryIdle
    /\ ConfIdle
    /\ CleanIdle
    /\ PipelineInit(UploadConfig(1, 1, 1, 0, FALSE, FALSE), 0)

Calculate ==
    /\ calcPc = "input"
    /\ calcOut' = CalculateOptimalPartSize(calcIn.fileSize, calcIn.maxMemoryMB,
                       calcIn.workers, calcIn.queueSize, calcIn.limits)
    /\ calcPc' = "done"
    /\ UNCHANGED <<cfgVars, confVars, cleanVars, retryVars, firstFatal, progVars, sumVars, downloadVars, object, backendParts, envVars, prodVars, mainVars, workerVars, collVars,
                   chanVars, ctxDone, calcIn>>

NextCalc == Calculate

SpecCalc == InitCalc /\ [][NextCalc]_vars

\* CalculateOptimalPartSize returned a part size without error.
CalcReturned == calcPc = "done" /\ calcOut.err = ""

(***************************************************************************)
(* calculator.go on int64 sizes.  A size of up to 2^50 bytes is the pair   *)
(* [mb, b] standing for mb * mbSize + b with 0 <= b < mbSize, so that      *)
(* gigabyte and terabyte inputs are computed exactly in 32-bit pieces.     *)
(***************************************************************************)
W(mb, b) == [mb |-> mb, b |-> b]

\* The int64 value of mb * mbSize + b for 0 <= b < 2^31.
WNorm(mb, b) == [mb |-> mb + b \div mbSize, b |-> b % mbSize]

WLess(x, y) == x.mb < y.mb \/ (x.mb = y.mb /\ x.b < y.b)

\* x / d for int64 x and 0 < d < 2^21: long division in base 1024.
WDivSmall(x, d) ==
    LET b1 == x.b \div 1024
        b0 == x.b % 1024
        t1 == (x.mb % d) * 1024 + b1
        t0 == (t1 % d) * 1024 + b0
    IN  [mb |-> x.mb \div d, b |-> (t1 \div d) * 1024 + t0 \div d]

\* math.Ceil(float64(x) / float64(d)) for a small d: (x + d - 1) / d.
WCeilDivSmall(x, d) == WDivSmall(WNorm(x.mb, x.b + d - 1), d)

\* x * n for 0 <= n < 2^20: the bytes are multiplied in two pieces of ten
\* bits each.
WScale(x, n) ==
    LET t == (x.b \div 1024) * n
    IN  WNorm(x.mb * n + t \div 1024, (t % 1024) * 1024 + (x.b % 1024) * n)

\* The least q in lo..hi with x <= q * p, given that hi is such a q.
RECURSIVE LeastQuotient(_, _, _, _)
LeastQuotient(x, p, lo, hi) ==
    IF lo >= hi THEN hi
    ELSE LET mid == (lo + hi) \div 2
         IN  IF WLess(WScale(p, mid), x)
             THEN LeastQuotient(x, p, mid + 1, hi)
             ELSE LeastQuotient(x, p, lo, mid)

\* math.Ceil(float64(x) / float64(p)) for 0 <= x and a part size p of at
\* least one megabyte; the quotient is exact in float64 for these sizes.
WCeilDiv(x, p) ==
    IF p.b = 0
    THEN IF x.b > 0 THEN x.mb \div p.mb + 1 ELSE CeilDiv(x.mb, p.mb)
    ELSE LeastQuotient(x, p, x.mb \div (p.mb + 1), (x.mb + 1) \div p.mb + 1)

\* roundToNearestMB with a fault seeded: always rounds down.
roundToNearestMB64Down(size) == W(size.mb, 0)

roundToNearestMB64(size) ==
    IF size.b < mbSize \div 2
    THEN W(size.mb, 0)
    ELSE W(size.mb + 1, 0)

\* LimitsValidate64 with a fault seeded: MinPartSize is not compared with
\* MaxPartSize.
LimitsValidate64Unordered(l) ==
    IF WLess(l.MinPartSize, W(5, 0)) THEN "MinPartSize"
    ELSE IF WLess(W(defaultMaxPartSizeMB, 0), l.MaxPartSize) THEN "MaxPartSize"
    ELSE IF l.MaxParts <= 0 \/ l.MaxParts > defaultMaxParts THEN "MaxParts"
    ELSE ""

\* ServiceLimits.Validate.
LimitsValidate64(l) ==
    IF WLess(l.MinPartSize, W(5, 0)) THEN "MinPartSize"
    ELSE IF WLess(W(defaultMaxPartSizeMB, 0), l.MaxPartSize) THEN "MaxPartSize"
    ELSE IF WLess(l.MaxPartSize, l.MinPartSize) THEN "MinPartSize"
    ELSE IF l.MaxParts <= 0 \/ l.MaxParts > defaultMaxParts THEN "MaxParts"
    ELSE ""

MaxFileSize64(l) == WScale(l.MaxPartSize, l.MaxParts)

CalculateOptimalPartSize64(fileSize, maxMemoryMB, workers, queueSize, limits) ==
    IF LimitsValidate64(limits) # ""
    THEN [size |-> W(0, 0), err |-> "validation"]
    ELSE IF WLess(MaxFileSize64(limits), fileSize)
    THEN [size |-> W(0, 0), err |-> "exceeds service limit"]
    ELSE IF maxMemoryMB > 0 /\ workers + queueSize = 0
    THEN [DivideByZero EXCEPT !.size = W(0, 0)]
    ELSE
      LET idealPartSize == WDivSmall(fileSize, targetParts)
          totalSlots == workers + queueSize
          memoryConstrainedPartSize ==
              IF maxMemoryMB > 0
              THEN WDivSmall(W(maxMemoryMB, 0), totalSlots)
              ELSE W(0, 0)
          p0 == IF maxMemoryMB > 0
                   /\ WLess(memoryConstrainedPartSize, idealPartSize)
                THEN memoryConstrainedPartSize
                ELSE idealPartSize
          p1 == roundToNearestMB64(p0)
          p2 == IF WLess(p1, limits.MinPartSize) THEN limits.MinPartSize ELSE p1
          p3 == IF WLess(limits.MaxPartSize, p2) THEN limits.MaxPartSize ELSE p2
          actualParts == WCeilDiv(fileSize, p3)
      IN  IF actualParts > limits.MaxParts
          THEN LET p4 == roundToNearestMB64(
                             WCeilDivSmall(fileSize, limits.MaxParts))
               IN  IF WLess(limits.MaxPartSize, p4)
                   THEN [size |-> W(0, 0), err |-> "cannot be uploaded"]
                   ELSE [size |-> p4, err |-> ""]
          ELSE [size |-> p3, err |-> ""]

(***************************************************************************)
(* SpecCalc64: CalculateOptimalPartSize applied to gigabyte-sized inputs.  *)
(***************************************************************************)
SeventyGiB == W(70 * 1024, 0)

DefaultS3Limits64 ==
    [MinPartSize |-> W(5, 0), MaxPartSize |-> W(defaultMaxPartSizeMB, 0),
     MaxParts |-> defaultMaxParts]

\* File sizes tried: every 500 MB up to the bound (fileSize / 1000 is then
\* a whole or a half megabyte: the rounding midpoint), the byte before and
\* the byte after each, and 70 GiB.
CalcFileSizes64 ==
    UNION {{W(500 * q, 0), W(500 * q, 1), W(500 * q - 1, mbSize - 1)} :
              q \in 1..MaxFileHalfGB} \cup {SeventyGiB}

\* Limits tried; MinPartSize 8 MB with MaxPartSize 6 MB is invalid.
CalcLimits64 ==
    [MinPartSize : {W(5, 0), W(8, 0)},
     MaxPartSize : {W(6, 0), W(64, 0), W(defaultMaxPartSizeMB, 0)},
     MaxParts : {1000, defaultMaxParts}]

CalcInputs64 ==
    [fileSize : CalcFileSizes64, maxMemoryMB : {0, 10, 70, 2048},
     workers : {1, 4}, queueSize : {1, 10}, limits : CalcLimits64]

InitCalc64 ==
    /\ calcIn \in CalcInputs64
    /\ calcOut = [size |-> W(0, 0), err |-> ""]
    /\ calcPc = "input"
    /\ RetryIdle
    /\ ConfIdle
    /\ CleanIdle
    /\ PipelineInit(UploadConfig(1, 1, 1, 0, FALSE, FALSE), 0)

Calculate64 ==
    /\ calcPc = "input"
    /\ calcOut' = CalculateOptimalPartSize64(calcIn.fileSize,
                       calcIn.maxMemoryMB, calcIn.workers, calcIn.queueSize,
                       calcIn.limits)
    /\ calcPc' = "done"
    /\ UNCHANGED <<cfgVars, confVars, cleanVars, retryVars, firstFatal, progVars, sumVars, downloadVars, object, backendParts, envVars, prodVars, mainVars, workerVars, collVars,
                   chanVars, ctxDone, calcIn>>

NextCalc64 == Calculate64

SpecCalc64 == InitCalc64 /\ [][NextCalc64]_vars

(***************************************************************************)
(* SpecConfig: ServiceLimits.Validate, Config.Validate and New applied to  *)
(* configurations drawn from bounded sets.  Sizes are int64 pairs.  A      *)
(* pointer is a sequence: <<>> is nil, <<x>> points to x.                  *)
(***************************************************************************)
NoError == [type |-> "", field |-> "", message |-> ""]

ValidationError(field, message) ==
    [type |-> "ValidationError", field |-> field, message |-> message]

\* OrDefault with a fault seeded: only zero is replaced.
OrDefaultOfZero(v, d) == IF v = 0 THEN d ELSE v

\* `if c.X <= 0 { c.X = d }` (config.go:96-115).
OrDefault(v, d) == IF v <= 0 THEN d ELSE v

\* Config.Validate: the error returned and the configuration it leaves.
ValidateConfig(c) ==
    IF c.AccessKeyID = ""
    THEN [err |-> ValidationError("AccessKeyID", "required"), config |-> c]
    ELSE IF c.SecretAccessKey = ""
    THEN [err |-> ValidationError("SecretAccessKey", "required"), config |-> c]
    ELSE IF c.Bucket = ""
    THEN [err |-> ValidationError("Bucket", "required"), config |-> c]
    ELSE IF c.Key = ""
    THEN [err |-> ValidationError("Key", "required"), config |-> c]
    ELSE IF ~WLess(W(0, 0), c.FileSize)
    THEN [err |-> ValidationError("FileSize", "must be greater than 0"),
          config |-> c]
    ELSE
      LET c1 == [c EXCEPT
                   !.Workers = OrDefault(@, defaultWorkers),
                   !.QueueSize = OrDefault(@, defaultQueueSize),
                   !.MaxRetries = OrDefault(@, 3),
                   !.RetryDelay = OrDefault(@, 1000),
                   !.MaxRetryDelay = OrDefault(@, 30000),
                   !.RetryMultiplier = OrDefault(@, 2),
                   !.ChecksumAlgorithm = IF @ = "" THEN "md5" ELSE @]
      IN
      IF c1.ChecksumAlgorithm # "md5" /\ c1.ChecksumAlgorithm # "sha256"
      THEN [err |-> ValidationError("ChecksumAlgorithm",
                                    "must be 'md5' or 'sha256'"),
            config |-> c1]
      ELSE IF c1.ServiceLimits # <<>>
              /\ LimitsValidate64(c1.ServiceLimits[1]) # ""
      THEN [err |-> ValidationError(LimitsValidate64(c1.ServiceLimits[1]),
                                    "service limits"),
            config |-> c1]
      ELSE
        LET c2 == [c1 EXCEPT
                     !.ServiceLimits = IF @ = <<>>
                                       THEN <<DefaultS3Limits64>> ELSE @]
        IN
        IF WLess(MaxFileSize64(c2.ServiceLimits[1]), c2.FileSize)
        THEN [err |-> ValidationError("FileSize", "exceeds service limit"),
              config |-> c2]
        ELSE [err |-> NoError,
              config |-> [c2 EXCEPT
                  !.Context = IF @ = "nil" THEN "background" ELSE @,
                  !.Region = IF @ = ""
                             THEN IF c2.AccountID # "" THEN "auto"
                                  ELSE "us-east-1"
                             ELSE @,
                  !.Endpoint = IF c2.AccountID # "" /\ @ = ""
                               THEN "r2.cloudflarestorage.com" ELSE @]]

NoUploader == [exists |-> FALSE, config |-> <<>>, partSize |-> W(0, 0)]

\* NewFails with a fault seeded: the Uploader is returned with the error.
NewFailsWithUploader(err, c) ==
    [done |-> TRUE, err |-> err,
     uploader |-> [exists |-> TRUE, config |-> <<c>>, partSize |-> W(0, 0)]]

\* `return nil, err` (uploader.go:79, 91, 112).
NewFails(err, c) == [done |-> TRUE, err |-> err, uploader |-> NoUploader]

\* New(cfg): what it returns; loadOk tells whether config.LoadDefaultConfig
\* succeeds.
New(c, loadOk) ==
    LET v == ValidateConfig(c)
    IN  IF v.err # NoError THEN NewFails(v.err, v.config)
        ELSE
          LET p == CalculateOptimalPartSize64(v.config.FileSize,
                       v.config.MaxMemoryMB, v.config.Workers,
                       v.config.QueueSize, v.config.ServiceLimits[1])
          IN  IF p.err # ""
              THEN NewFails([type |-> "error", field |-> "",
                             message |-> p.err], v.config)
              ELSE IF ~loadOk
              THEN NewFails([type |-> "UploadError",
                             field |-> "config creation", message |-> ""],
                            v.config)
              ELSE [done |-> TRUE, err |-> NoError,
                    uploader |-> [exists |-> TRUE, config |-> <<v.config>>,
                                  partSize |-> p.size]]

\* Limits tried on ServiceLimits.Validate: sizes at, one byte below and
\* one byte above 5 MB and 5 GB, and part counts around 0 and 10000.
ConfLimits ==
    [MinPartSize : {W(4, mbSize - 1), W(5, 0), W(5, 1),
                    W(defaultMaxPartSizeMB, 0), W(defaultMaxPartSizeMB, 1)},
     MaxPartSize : {W(4, 0), W(5, 0), W(5, 1),
                    W(defaultMaxPartSizeMB - 1, mbSize - 1),
                    W(defaultMaxPartSizeMB, 0), W(defaultMaxPartSizeMB, 1)},
     MaxParts : {-1, 0, 1, defaultMaxParts, defaultMaxParts + 1}]

\* Custom limits of 4 parts of 8 MB at most.
SmallLimits == [MinPartSize |-> W(5, 0), MaxPartSize |-> W(8, 0),
                MaxParts |-> 4]

\* Valid limits of one part of 6.5 MB and a byte: a file of that size
\* passes Validate and is refused by CalculateOptimalPartSize, which
\* rounds the part size up to 7 MB.
OddLimits == [MinPartSize |-> W(5, 0),
              MaxPartSize |-> W(6, mbSize \div 2 + 1), MaxParts |-> 1]

\* Invalid limits: MinPartSize below 5 MB.
BadLimits == [MinPartSize |-> W(4, 0), MaxPartSize |-> W(8, 0),
              MaxParts |-> 4]

\* A Config as the caller fills it in.
RawConfig(missing, size, limits, alg, env, num) ==
    [AccessKeyID |-> IF missing = "AccessKeyID" THEN "" ELSE "id",
     SecretAccessKey |-> IF missing = "SecretAccessKey" THEN "" ELSE "secret",
     Bucket |-> IF missing = "Bucket" THEN "" ELSE "bucket",
     Key |-> IF missing = "Key" THEN "" ELSE "key",
     FileSize |-> size,
     AccountID |-> IF env = 1 THEN "" ELSE "account",
     Endpoint |-> "",
     Region |-> IF env = 3 THEN "eu-west-1" ELSE "",
     Workers |-> num[1], QueueSize |-> num[2], MaxMemoryMB |-> 0,
     ServiceLimits |-> limits,
     MaxRetries |-> num[3], RetryDelay |-> num[4], MaxRetryDelay |-> num[5],
     RetryMultiplier |-> num[6],
     ProgressCallback |-> FALSE,
     CalculateChecksum |-> TRUE, ChecksumAlgorithm |-> alg,
     Context |-> IF env = 1 THEN "nil" ELSE "ctx"]

\* File sizes tried: negative, zero, 10 MB, the maximum of SmallLimits and
\* a byte more, the maximum of OddLimits, the maximum of the default
\* limits (5 GB * 10000) and a byte more, and 60 TB.
ConfFileSizes ==
    {W(-1, 0), W(0, 0), W(10, 0), W(32, 0), W(32, 1),
     W(6, mbSize \div 2 + 1),
     W(defaultMaxPartSizeMB * defaultMaxParts, 0),
     W(defaultMaxPartSizeMB * defaultMaxParts, 1),
     W(60 * 1024 * 1024, 0)}

\* The six numeric settings (Workers, QueueSize, MaxRetries, RetryDelay,
\* MaxRetryDelay, RetryMultiplier): each unset or set, and all negative.
ConfNumbers ==
    {<<w, q, r, d, m, x>> : w \in {0, 2}, q \in {0, 3}, r \in {0, 5},
                            d \in {0, 500}, m \in {0, 60000}, x \in {0, 3}}
        \cup {<<-1, -1, -1, -1, -1, -1>>}

\* The configurations tried: every required field missing in turn, every
\* file size, limits and checksum algorithm with the numeric settings
\* unset, and every choice of numeric settings on a configuration that is
\* otherwise complete.
RawConfigs ==
    {RawConfig(missing, size, limits, alg, env, <<0, 0, 0, 0, 0, 0>>) :
        missing \in {"", "AccessKeyID", "SecretAccessKey", "Bucket", "Key"},
        size \in ConfFileSizes,
        limits \in {<<>>, <<SmallLimits>>, <<OddLimits>>, <<BadLimits>>},
        alg \in {"", "sha256", "sha1"}, env \in {1, 2}}
    \cup
    {RawConfig("", W(10, 0), limits, alg, env, num) :
        limits \in {<<>>, <<SmallLimits>>}, alg \in {"", "sha256"},
        env \in 1..3, num \in ConfNumbers}

ConfInputs ==
    {[fn |-> "ServiceLimits.Validate", limits |-> l] : l \in ConfLimits}
    \cup {[fn |-> "Config.Validate", config |-> c] : c \in RawConfigs}
    \cup {[fn |-> "New", config |-> c] : c \in RawConfigs}

InitConfig ==
    /\ confIn \in ConfInputs
    /\ confOut = [done |-> FALSE]
    /\ CleanIdle
    /\ CalcIdle
    /\ RetryIdle
    /\ PipelineInit(UploadConfig(1, 1, 1, 0, FALSE, FALSE), 0)

ConfFrame ==
    UNCHANGED <<streamLen, cleanVars, retryVars, firstFatal, progVars, sumVars,
                downloadVars, object, backendParts, envVars, prodVars,
                mainVars, workerVars, collVars, chanVars, ctxDone, calcVars,
                confIn>>

ValidateLimits ==
    /\ confIn.fn = "ServiceLimits.Validate"
    /\ ~confOut.done
    /\ confOut' = [done |-> TRUE, err |-> LimitsValidate64(confIn.limits)]
    /\ UNCHANGED <<cfg, partSize>>
    /\ ConfFrame

\* cfg.Validate() called by the user on their own Config.
CallValidate ==
    /\ confIn.fn = "Config.Validate"
    /\ ~confOut.done
    /\ confOut' = [done |-> TRUE] @@ ValidateConfig(confIn.config)
    /\ UNCHANGED <<cfg, partSize>>
    /\ ConfFrame

\* New(cfg): on success the Uploader holds the validated configuration
\* and the part size.
CallNew ==
    /\ confIn.fn = "New"
    /\ ~confOut.done
    /\ \E loadOk \in BOOLEAN :
          /\ confOut' = New(confIn.config, loadOk)
          /\ IF confOut'.uploader.exists
             THEN /\ cfg' = confOut'.uploader.config[1]
                  /\ partSize' = confOut'.uploader.partSize
             ELSE UNCHANGED <<cfg, partSize>>
    /\ ConfFrame

\* Upload is called on the Uploader New returned, and issues its first
\* backend call, CreateMultipartUpload.
CallUpload ==
    /\ confIn.fn = "New"
    /\ confOut.done
    /\ confOut.uploader.exists
    /\ BeginSession \/ BeginFails

NextConfig ==
    \/ ValidateLimits
    \/ CallValidate
    \/ CallNew
    \/ CallUpload

SpecConfig == InitConfig /\ [][NextConfig]_vars

(***************************************************************************)
(* The retry policy's two pure functions, isRetryableError and             *)
(* calculateBackoff (uploader.go:308-361), applied to inputs drawn from    *)
(* bounded sets.                                                           *)
(***************************************************************************)

\* API error codes tried: the four the switch names, codes that start
\* with '5' of three characters or more, shorter ones, and one that is
\* none of these.
ApiCodes ==
    {Code("InternalError", 13, "I"), Code("ServiceUnavailable", 18, "S"),
     Code("SlowDown", 8, "S"), Code("RequestTimeout", 14, "R"),
     Code("500InternalServerError", 22, "5"), Code("503", 3, "5"),
     Code("50", 2, "5"), Code("5", 1, "5"), Code("AccessDenied", 12, "A")}

\* The errors tried: nil, and every combination of classes an error chain
\* can have.  context.DeadlineExceeded is itself a net.Error, so a chain
\* that holds it always has the net class.
RetryErrors ==
    {ErrorClasses(TRUE, FALSE, FALSE, FALSE, NoCode, "")} \cup
    {c \in {ErrorClasses(FALSE, net, sys, apiFound, code, ctx) :
                net \in BOOLEAN, sys \in BOOLEAN, apiFound \in BOOLEAN,
                code \in ApiCodes \cup {NoCode},
                ctx \in {"", "canceled", "deadline"}} :
        /\ c.api.found <=> c.api.code # NoCode
        /\ c.ctx = "deadline" => c.net}

\* Retry settings as Validate leaves them (config.go:104-115): each is
\* positive.  The defaults are 1000, 30000 and 2.  The largest delay
\* before the cap, 5000 * 3^(MaxAttempt + 1), is below 2^31.
RetryConfigs ==
    {[RetryDelay |-> d, MaxRetryDelay |-> m, RetryMultiplier |-> x] :
        d \in {1, 500, 1000, 5000}, m \in {1000, 10000, 30000, 60000},
        x \in {1, 2, 3}}

DefaultRetryConfig ==
    [RetryDelay |-> 1000, MaxRetryDelay |-> 30000, RetryMultiplier |-> 2]

RetryInputs ==
    {[fn |-> "isRetryableError", err |-> c, config |-> NoRetryCall.config,
      attempt |-> 0] : c \in RetryErrors} \cup
    {[fn |-> "calculateBackoff", err |-> NoRetryCall.err, config |-> c,
      attempt |-> a] : c \in RetryConfigs, a \in 0..MaxAttempt}

InitRetry ==
    /\ retryIn \in RetryInputs
    /\ retryOut = NoRetryResult
    /\ CalcIdle
    /\ ConfIdle
    /\ CleanIdle
    /\ PipelineInit(UploadConfig(1, 1, 1, 0, FALSE, FALSE), 0)

RetryFrame ==
    UNCHANGED <<cfgVars, confVars, cleanVars, firstFatal, progVars, sumVars, downloadVars, object,
                backendParts, envVars, prodVars, mainVars, workerVars,
                collVars, chanVars, ctxDone, calcVars, retryIn>>

Classify ==
    /\ retryIn.fn = "isRetryableError"
    /\ ~retryOut.done
    /\ retryOut' = [done |-> TRUE,
                    retryable |-> isRetryableError(retryIn.err),
                    backoffMs |-> 0]
    /\ RetryFrame

Backoff ==
    /\ retryIn.fn = "calculateBackoff"
    /\ ~retryOut.done
    /\ retryOut' = [done |-> TRUE, retryable |-> FALSE,
                    backoffMs |-> calculateBackoff(retryIn.config,
                                                   retryIn.attempt)]
    /\ RetryFrame

NextRetry == Classify \/ Backoff

SpecRetry == InitRetry /\ [][NextRetry]_vars

\* C11: whenever CalculateOptimalPartSize returns a part size under a
\* memory budget (maxMemoryMB > 0), partSize * (workers + queueSize) is at
\* most the budget plus one megabyte per slot.
C11_MemoryWithinBudget ==
    (CalcReturned /\ calcIn.maxMemoryMB > 0) =>
        LET slots == calcIn.workers + calcIn.queueSize
        IN  ~WLess(W(calcIn.maxMemoryMB + slots, 0),
                   WScale(calcOut.size, slots))

\* fileSize / 1000 as a real number rounded to the nearest megabyte, the
\* midpoint rounding up: floor((floor(fileSize / (1000 * mbSize / 2)) + 1) / 2).
NearestMBOfThousandth(fileSize) ==
    LET halves == (2 * fileSize.mb
                     + (IF fileSize.b >= mbSize \div 2 THEN 1 ELSE 0))
                  \div 1000
    IN  W((halves + 1) \div 2, 0)

\* The case of C12: no memory budget, valid limits, and the rounded
\* thousandth of the file size within the limits.
C12_Case ==
    LET r == NearestMBOfThousandth(calcIn.fileSize)
    IN  /\ calcPc = "done"
        /\ calcIn.maxMemoryMB = 0
        /\ LimitsValidate64(calcIn.limits) = ""
        /\ ~WLess(r, calcIn.limits.MinPartSize)
        /\ ~WLess(calcIn.limits.MaxPartSize, r)
        /\ WCeilDiv(calcIn.fileSize, r) <= calcIn.limits.MaxParts

\* C12: with no memory budget and valid limits, when fileSize / 1000
\* rounded to the nearest megabyte (midpoint up) lies within the part-size
\* limits and gives at most MaxParts parts, that value is returned; and
\* 70 GiB under the default limits gives a part size within 10% of 70 MiB.
C12_IdealPartSizeReturned ==
    /\ C12_Case =>
          calcOut = [size |-> NearestMBOfThousandth(calcIn.fileSize),
                     err |-> ""]
    /\ (/\ calcPc = "done"
        /\ calcIn.fileSize = SeventyGiB
        /\ calcIn.maxMemoryMB = 0
        /\ calcIn.limits = DefaultS3Limits64) =>
          /\ calcOut.err = ""
          /\ calcOut.size.b = 0
          /\ 10 * calcOut.size.mb >= 9 * 70
          /\ 10 * calcOut.size.mb <= 11 * 70

\* The 70 GiB file under the default limits: 71.68 MB rounds up to 72 MB.
C12_Witness ==
    /\ C12_Case
    /\ calcIn.fileSize = SeventyGiB
    /\ calcIn.limits = DefaultS3Limits64
    /\ calcOut.size = W(72, 0)

(***************************************************************************)
(* Properties of the upload pipeline (checked under Spec).                 *)
(***************************************************************************)
SessionBegun == uploadID # ""

Returned == mainPc = "returned"

\* produceparts has returned nil (uploadErr is later overwritten only by a
\* CompleteMultipartUpload error).
ProducerOk ==
    /\ prodPc = "done"
    /\ uploadErr = Nil \/ uploadErr.op = "CompleteMultipartUpload"

\* Chunk buffers alive: the Producer's partData waiting to be sent, the
\* parts queued in partsChan, and the parts of workers inside the retry loop.
ChunkBuffers ==
    (IF partData > 0 THEN 1 ELSE 0)
    + Len(partsChan)
    + Cardinality({w \in WorkerIds : wpc[w] \in {"uploading", "backoff"}})

\* C1: whenever Upload has returned an error after the session was begun,
\* an AbortMultipartUpload call has been issued for the session.
C1_AbortIssuedBeforeErrorReturn ==
    (Returned /\ retErr # Nil /\ SessionBegun) => abortCalls >= 1

\* C2: after a chunk failed terminally (and without any cancellation) the
\* pipeline never gets stuck: until Upload has returned some step of
\* Upload, a worker or the Collector can be taken, and when Upload has
\* returned it has returned an error.
C2_TerminatesAfterChunkFailure ==
    (chunkFailed /\ ~ctxCancelled /\ ~userAborted) =>
        IF Returned THEN retErr # Nil ELSE ENABLED ProgramNext

\* Cancellation is the only fault of the run so far: no chunk failed
\* terminally for another reason, no read error, no backend refusal.
OnlyCancellationFault ==
    /\ ~chunkFailed
    /\ uploadErr.cause \notin {"io", "api"}

\* C3: when the caller cancels while the pipeline runs, and cancellation
\* is the only fault of the run, the pipeline never gets stuck before
\* Upload returns, and the error Upload returns is a cancellation error.
C3_CancelledUploadReturnsCancellation ==
    (cancelledRunning /\ OnlyCancellationFault) =>
        IF Returned THEN IsCancellation(retErr) ELSE ENABLED ProgramNext

\* C4: an Upload cancelled while its pipeline ran has, when it returns,
\* issued exactly one AbortMultipartUpload call.
C4_ExactlyOneAbortOnCancel ==
    (Returned /\ cancelledRunning) => abortCalls = 1

\* C5: CompleteMultipartUpload is called at most once, and only when the
\* Producer returned nil and the Collector returned no error; its list
\* holds exactly one entry, with the backend's ETag, for each published
\* part 1..N.
C5_CompleteOnceWithEveryPart ==
    /\ completeCalls <= 1
    /\ completeCalls = 1 =>
          /\ ProducerOk
          /\ collectorErr = Nil
          /\ Len(completeArg) = Len(published)
          /\ \A i \in 1..Len(published) :
                \E j \in 1..Len(completeArg) :
                    /\ completeArg[j].number = published[i].number
                    /\ completeArg[j].etag = ETagOf(published[i].number)
          /\ \A i, j \in 1..Len(completeArg) :
                i # j => completeArg[i].number # completeArg[j].number

C5_Witness ==
    /\ completeCalls = 1
    /\ Len(completeArg) = MaxChunks

\* C6: whatever the arrival order of the results, the list collectResults
\* returns without error, and the one passed to CompleteMultipartUpload,
\* is strictly ascending by part number and holds each arrived entry with
\* the ETag reported for its part number.
StrictlyAscending(parts) ==
    \A i \in 1..(Len(parts) - 1) : parts[i].number < parts[i + 1].number

SameEntries(a, b) ==
    /\ Len(a) = Len(b)
    /\ \A i \in 1..Len(a) : \E j \in 1..Len(b) : a[i] = b[j]

C6_CompletionListSorted ==
    /\ (collPc = "done" /\ collectorErr = Nil) =>
          /\ StrictlyAscending(completedParts)
          /\ SameEntries(collParts, completedParts)
          /\ \A i \in 1..Len(completedParts) :
                completedParts[i].etag = ETagOf(completedParts[i].number)
    /\ completeCalls = 1 =>
          /\ StrictlyAscending(completeArg)
          /\ completeArg = completedParts

C6_Witness ==
    /\ completeCalls = 1
    /\ Len(collParts) = MaxChunks
    /\ collParts[1].number > collParts[MaxChunks].number
    /\ completeArg # collParts

\* C7: when the Producer has returned nil, the parts it published are
\* numbered exactly 1, 2, ..., ceil(streamLen / partSize), in that order.
C7_ProducerNumbersParts ==
    ProducerOk =>
        /\ Len(published) = CeilDiv(streamLen, partSize)
        /\ \A i \in 1..Len(published) : published[i].number = i

C7_Witness ==
    /\ ProducerOk
    /\ Len(published) = MaxChunks
    /\ streamLen % partSize # 0

\* C8: at every moment at most Workers + QueueSize chunk buffers exist.
C8_BuffersWithinWorkersPlusQueue ==
    ChunkBuffers <= cfg.Workers + cfg.QueueSize

(***************************************************************************)
(* Properties of the part-size calculator (checked under SpecCalc).        *)
(***************************************************************************)
\* C9: a part size returned without error lies in
\* [limits.MinPartSize, limits.MaxPartSize].
C9_PartSizeWithinLimits ==
    CalcReturned =>
        /\ calcOut.size >= calcIn.limits.MinPartSize
        /\ calcOut.size <= calcIn.limits.MaxPartSize

\* C10: a part size p returned without error splits the file into at most
\* limits.MaxParts parts: ceil(fileSize / p) <= MaxParts.
C10_PartCountWithinMaxParts ==
    CalcReturned =>
        CeilDiv(calcIn.fileSize, calcOut.size) <= calcIn.limits.MaxParts

(***************************************************************************)
(* Checksum (checked under Spec).                                          *)
(***************************************************************************)
\* The bytes of a list of ranges, concatenated in list order.
RECURSIVE BytesOf(_)
BytesOf(ranges) ==
    IF ranges = <<>> THEN <<>>
    ELSE LET last == ranges[Len(ranges)]
         IN  BytesAppend(BytesOf(SubSeq(ranges, 1, Len(ranges) - 1)),
                         last.off, last.len)

\* C13: with checksum enabled, the accumulator holds exactly what the
\* Producer wrote: one write per chunk, in ascending part order, made
\* before the chunk was sent on partsChan; and after Upload returned nil
\* the checksum is the digest of the whole input in source order.
C13_ChecksumOfInputInSourceOrder ==
    cfg.CalculateChecksum =>
        /\ \A i \in 1..Len(hashLog) : hashLog[i].number = i
        /\ Len(published) <= Len(hashLog)
        /\ Len(hashLog) <= Len(published) + 1
        /\ \A i \in 1..Len(published) : published[i] = hashLog[i]
        /\ checksumHash.bytes = BytesOf(hashLog)
        /\ (Returned /\ retErr = Nil) =>
              checksum = [alg |-> cfg.ChecksumAlgorithm,
                          of  |-> WholeInput(streamLen)]

\* A successful upload of several chunks whose results reached the
\* Collector out of order, with the checksum finalized.
C13_Witness ==
    /\ cfg.CalculateChecksum
    /\ Returned /\ retErr = Nil
    /\ Len(collParts) >= 2
    /\ collParts[1].number > collParts[2].number
    /\ checksum = [alg |-> "md5", of |-> WholeInput(streamLen)]

(***************************************************************************)
(* Round trip (checked under Spec).                                        *)
(***************************************************************************)
\* C14: when a Download that follows a successful Upload returns nil, the
\* sink holds exactly the input byte sequence; and when both sides
\* computed a checksum with the same algorithm, the two are equal.
C14_RoundTrip ==
    (dpc = "done" /\ Returned /\ retErr = Nil) =>
        /\ sink = WholeInput(streamLen)
        /\ (cfg.CalculateChecksum /\ dHash.alg = cfg.ChecksumAlgorithm) =>
              /\ dChecksum = checksum
              /\ dChecksum # NoChecksum

\* A finished round trip of several parts whose results had reached the
\* Collector out of order, both checksums computed with MD5.
C14_Witness ==
    /\ dpc = "done" /\ Returned /\ retErr = Nil
    /\ Len(collParts) >= 2
    /\ collParts[1].number > collParts[2].number
    /\ cfg.CalculateChecksum /\ dHash.alg = "md5"
    /\ sink = WholeInput(streamLen)
    /\ dChecksum = checksum

(***************************************************************************)
(* Progress (checked under Spec).                                          *)
(***************************************************************************)
\* The bytes of the parts listed, by the lengths they were published with.
RECURSIVE PublishedBytes(_)
PublishedBytes(numbers) ==
    IF numbers = <<>> THEN 0
    ELSE (CHOOSE p \in Range(published) : p.number = Head(numbers)).len
         + PublishedBytes(Tail(numbers))

\* C15: a part is added to the progress counters at most once, and only
\* when the backend accepted it; the counters are the totals of the parts
\* added, bytesUploaded never exceeds the bytes read from the stream, and
\* when Upload has returned every part with a successful result has been
\* added; after a nil return the counters are the stream length and the
\* number of chunks.
C15_ProgressCountsEachChunkOnce ==
    /\ \A i, j \in 1..Len(contributed) :
          i # j => contributed[i] # contributed[j]
    /\ \A n \in Range(contributed) : \E p \in backendParts : p.number = n
    /\ bytesUploaded = PublishedBytes(contributed)
    /\ partsUploaded = Len(contributed)
    /\ bytesUploaded <= streamLen - remaining
    /\ Returned =>
          \A c \in Range(collParts) : c.number \in Range(contributed)
    /\ (Returned /\ retErr = Nil) =>
          /\ bytesUploaded = streamLen
          /\ partsUploaded = Len(published)

\* A part that was accepted on its second attempt has been added to the
\* counters, once.
C15_Witness ==
    \E w \in WorkerIds :
        /\ wpc[w] = "call"
        /\ wattempt[w] >= 1
        /\ Len(SelectSeq(contributed,
                         LAMBDA n : n = wpart[w].number)) = 1
        /\ bytesUploaded >= wpart[w].len
        /\ partsUploaded >= 1

\* C16: in the order of the ProgressCallback invocations, neither argument
\* is ever smaller than in an earlier invocation.
C16_CallbackTotalsMonotonic ==
    \A i, j \in 1..Len(progressCalls) :
        i < j => /\ progressCalls[i].bytes <= progressCalls[j].bytes
                 /\ progressCalls[i].parts <= progressCalls[j].parts

(***************************************************************************)
(* Error propagation (checked under Spec).                                 *)
(***************************************************************************)
\* C17: the error Upload returns is the first fatal error that occurred
\* in the run.
C17_FirstFatalErrorReturned ==
    (Returned /\ retErr # Nil) => retErr = firstFatal

(***************************************************************************)
(* The retry policy (checked under SpecRetry).                             *)
(***************************************************************************)
Classified == retryIn.fn = "isRetryableError" /\ retryOut.done

\* C18: isRetryableError returns false for every error that is or wraps
\* context.Canceled or context.DeadlineExceeded, whatever other classes
\* the error also belongs to.
C18_CancellationNeverRetryable ==
    (Classified /\ retryIn.err.ctx # "") => ~retryOut.retryable

\* The API codes the claim names: the four transient codes and every code
\* that starts with '5'.
TransientCode(code) ==
    \/ code.text \in {"InternalError", "ServiceUnavailable", "SlowDown",
                      "RequestTimeout"}
    \/ code.first = "5"

\* C19: for an error that is not a cancellation or deadline error,
\* isRetryableError returns false when it is nil, and true when it is a
\* network error, a syscall error, an API error whose code is
\* InternalError, ServiceUnavailable, SlowDown, RequestTimeout or starts
\* with '5', or an error of none of these classes.
C19_RetryableClasses ==
    (Classified /\ retryIn.err.ctx = "") =>
        LET c == retryIn.err
            transient == c.api.found /\ TransientCode(c.api.code)
        IN  /\ c.isNil => ~retryOut.retryable
            /\ (~c.isNil /\ c.net) => retryOut.retryable
            /\ (~c.isNil /\ c.syscall) => retryOut.retryable
            /\ (~c.isNil /\ transient) => retryOut.retryable
            /\ (~c.isNil /\ ~c.net /\ ~c.syscall /\ ~transient)
                   => retryOut.retryable

\* An error of no class at all has been found retryable.
C19_Witness ==
    /\ Classified
    /\ retryIn.err = ErrorClasses(FALSE, FALSE, FALSE, FALSE, NoCode, "")
    /\ retryOut.retryable

BackedOff == retryIn.fn = "calculateBackoff" /\ retryOut.done

\* C20: calculateBackoff(attempt) is min(MaxRetryDelay, RetryDelay *
\* RetryMultiplier^attempt) milliseconds; it never exceeds MaxRetryDelay,
\* is never below the delay of the attempt before, and with 1000, 2 and
\* 30000 it is 1000, 2000, 4000, 8000, 16000 for attempts 0..4 and 30000
\* from attempt 5 on.
C20_BackoffIsCappedExponential ==
    BackedOff =>
        LET c == retryIn.config
            a == retryIn.attempt
            uncapped == c.RetryDelay * (c.RetryMultiplier ^ a)
        IN  /\ retryOut.backoffMs = IF uncapped < c.MaxRetryDelay
                                    THEN uncapped ELSE c.MaxRetryDelay
            /\ retryOut.backoffMs <= c.MaxRetryDelay
            /\ a >= 1 => retryOut.backoffMs >= calculateBackoff(c, a - 1)
            /\ c = DefaultRetryConfig =>
                   retryOut.backoffMs =
                       IF a <= 4
                       THEN <<1000, 2000, 4000, 8000, 16000>>[a + 1]
                       ELSE 30000

\* With the default settings, attempt 5 has been capped at 30000 ms.
C20_Witness ==
    /\ BackedOff
    /\ retryIn.config = DefaultRetryConfig
    /\ retryIn.attempt = 5
    /\ retryOut.backoffMs = 30000

(***************************************************************************)
(* The per-chunk retry loop (checked under Spec).                          *)
(***************************************************************************)
\* What the claim says of one step of worker w, whose current attempt is
\* wattempt[w] (counted from 0) and whose UploadPart call returns werr'[w].
RetryLoopStep(w) ==
    LET k == wattempt[w]
        retryable == isRetryableError(ErrClasses(werr'[w]))
    IN  /\ wpc'[w] = "uploading" => wattempt'[w] <= cfg.MaxRetries
        /\ (wpc[w] = "recv" /\ wpc'[w] = "uploading") => wattempt'[w] = 0
        /\ (wpc[w] = "uploading" /\ wpc'[w] # "uploading") =>
              /\ wattempt'[w] = k
              /\ IF werr'[w] = "nil" \/ ~retryable \/ k = cfg.MaxRetries
                 THEN wpc'[w] = "publish" /\ wbackoff'[w] = 0
                 ELSE /\ wpc'[w] = "backoff"
                      /\ wbackoff'[w] = calculateBackoff(cfg, k)
        /\ (wpc[w] = "backoff" /\ ~ctxDone /\ wpc'[w] # "backoff") =>
              wpc'[w] = "uploading" /\ wattempt'[w] = k + 1
        /\ (wpc[w] = "publish" /\ wpc'[w] # "publish") =>
              /\ resultsChan' # <<>>
              /\ resultsChan'[Len(resultsChan')].number = wpart[w].number
              /\ resultsChan'[Len(resultsChan')].err = werr[w]

\* C21: for each chunk a worker makes at most MaxRetries + 1 UploadPart
\* attempts: it stops after the first success and after a non-retryable
\* failure; after a retryable failure of attempt k < MaxRetries it sleeps
\* calculateBackoff(k) and retries; after a retryable failure of attempt
\* MaxRetries it does not sleep and publishes a failed result with the
\* last attempt's error.
C21_RetryLoop == [][\A w \in WorkerIds : RetryLoopStep(w)]_vars

\* A worker has used up the retry budget of a part on retryable failures
\* and is about to publish the failed result.
C21_Witness ==
    \E w \in WorkerIds :
        /\ wpc[w] = "publish"
        /\ werr[w] = "net"
        /\ wattempt[w] = cfg.MaxRetries
        /\ ~ctxDone

(***************************************************************************)
(* Termination (checked under FairSpec).                                   *)
(***************************************************************************)
\* Something the claim excludes has happened: a read error, a
\* cancellation, a chunk that failed for good, or a failure of
\* CreateMultipartUpload or CompleteMultipartUpload themselves.
Faulted ==
    \/ ctxCancelled \/ userAborted
    \/ chunkFailed
    \/ uploadErr # Nil
    \/ retErr.op = "CreateMultipartUpload"

\* Upload returned nil after exactly one CompleteMultipartUpload call and
\* no abort.
CompletedCleanly ==
    /\ Returned
    /\ retErr = Nil
    /\ completeCalls = 1
    /\ abortCalls = 0

\* C22: if the input ends without a read error, nothing is cancelled and
\* every chunk is uploaded within its retry budget, the pipeline does not
\* deadlock, whatever Workers, QueueSize and the number of chunks are:
\* Upload eventually calls CompleteMultipartUpload exactly once, issues no
\* abort and returns nil.
C22_FaultFreeUploadCompletes == <>(Faulted \/ CompletedCleanly)

\* A stream of more chunks than QueueSize and than Workers has been
\* uploaded and completed.
C22_Witness ==
    /\ CompletedCleanly
    /\ ~Faulted
    /\ Len(published) > cfg.QueueSize
    /\ Len(published) > cfg.Workers

(***************************************************************************)
(* The calculator's fail-fast checks (checked under SpecCalc).             *)
(***************************************************************************)
\* What the claims say of valid limits: MinPartSize >= 5 MB, MaxPartSize
\* <= 5 GB (every size tried under SpecCalc is), MinPartSize <=
\* MaxPartSize and 0 < MaxParts <= 10000.
ValidLimits(l) ==
    /\ l.MinPartSize >= 5 * 1024 * 1024
    /\ l.MinPartSize <= l.MaxPartSize
    /\ 0 < l.MaxParts /\ l.MaxParts <= 10000

\* C24: CalculateOptimalPartSize returns an error and part size 0 when
\* fileSize > limits.MaxPartSize * limits.MaxParts, for every memory
\* budget and concurrency setting, and a validation error when the limits
\* are invalid, in both cases before it computes any part size.
C24_FailsFast ==
    calcPc = "done" =>
        /\ calcIn.fileSize > calcIn.limits.MaxPartSize * calcIn.limits.MaxParts
              => /\ calcOut.size = 0
                 /\ calcOut.err \in {"validation", "exceeds service limit"}
        /\ ~ValidLimits(calcIn.limits)
              => calcOut.size = 0 /\ calcOut.err = "validation"

\* A file one byte above the maximum of valid limits was refused, with a
\* memory budget and no slot to divide it by.
C24_Witness ==
    /\ calcPc = "done"
    /\ ValidLimits(calcIn.limits)
    /\ calcIn.fileSize
          = calcIn.limits.MaxPartSize * calcIn.limits.MaxParts + 1
    /\ calcIn.maxMemoryMB > 0
    /\ calcIn.workers + calcIn.queueSize = 0
    /\ calcOut = [size |-> 0, err |-> "exceeds service limit"]

\* C25: ServiceLimits.Validate returns nil exactly when MinPartSize >= 5 MB,
\* MaxPartSize <= 5 GB, MinPartSize <= MaxPartSize and 0 < MaxParts <= 10000,
\* and a ValidationError in every other case.
C25_LimitsValidNilIffInRange ==
    (confIn.fn = "ServiceLimits.Validate" /\ confOut.done) =>
        LET l == confIn.limits
            AtMost(x, y) == x.mb < y.mb \/ (x.mb = y.mb /\ x.b <= y.b)
            inRange == /\ AtMost(W(5, 0), l.MinPartSize)
                       /\ AtMost(l.MaxPartSize, W(5 * 1024, 0))
                       /\ AtMost(l.MinPartSize, l.MaxPartSize)
                       /\ 0 < l.MaxParts
                       /\ l.MaxParts <= 10000
        IN  /\ inRange => confOut.err = ""
            /\ ~inRange => confOut.err \in {"MinPartSize", "MaxPartSize",
                                            "MaxParts"}

\* ServiceLimits.Validate has refused limits whose only fault is that
\* MinPartSize (5 GB) exceeds MaxPartSize (5 MB).
C25_Witness ==
    /\ confIn.fn = "ServiceLimits.Validate"
    /\ confOut.done
    /\ confIn.limits = [MinPartSize |-> W(5 * 1024, 0),
                        MaxPartSize |-> W(5, 0), MaxParts |-> 1]
    /\ confOut.err = "MinPartSize"

\* C26: after Config.Validate returns nil, Workers, QueueSize, MaxRetries,
\* RetryDelay, MaxRetryDelay and RetryMultiplier are positive, ServiceLimits
\* is non-nil and valid, 0 < FileSize <= ServiceLimits.MaxFileSize() and
\* Context is non-nil; each of these fields supplied positive (or non-nil)
\* is unchanged, and each supplied zero, negative or nil holds its default
\* (4, 10, 3, 1000, 30000, 2, the default S3 limits, the background
\* context).
C26_ValidatedConfig ==
    (confIn.fn = "Config.Validate" /\ confOut.done /\ confOut.err = NoError) =>
        LET in == confIn.config
            out == confOut.config
            Settled(f, d) == /\ out[f] > 0
                             /\ in[f] > 0 => out[f] = in[f]
                             /\ in[f] <= 0 => out[f] = d
            AtMost(x, y) == x.mb < y.mb \/ (x.mb = y.mb /\ x.b <= y.b)
        IN  /\ Settled("Workers", 4)
            /\ Settled("QueueSize", 10)
            /\ Settled("MaxRetries", 3)
            /\ Settled("RetryDelay", 1000)
            /\ Settled("MaxRetryDelay", 30000)
            /\ Settled("RetryMultiplier", 2)
            /\ out.ServiceLimits # <<>>
            /\ LimitsValidate64(out.ServiceLimits[1]) = ""
            /\ in.ServiceLimits # <<>> => out.ServiceLimits = in.ServiceLimits
            /\ in.ServiceLimits = <<>> =>
                   out.ServiceLimits[1] = [MinPartSize |-> W(5, 0),
                                           MaxPartSize |-> W(5 * 1024, 0),
                                           MaxParts |-> 10000]
            /\ out.FileSize = in.FileSize
            /\ AtMost(W(0, 1), out.FileSize)
            /\ AtMost(out.FileSize, MaxFileSize64(out.ServiceLimits[1]))
            /\ out.Context # "nil"
            /\ in.Context # "nil" => out.Context = in.Context
            /\ in.Context = "nil" => out.Context = "background"

\* Config.Validate has returned nil on a configuration whose six numeric
\* settings were all negative and whose limits and context were nil.
C26_Witness ==
    /\ confIn.fn = "Config.Validate"
    /\ confOut.done
    /\ confOut.err = NoError
    /\ confIn.config.Workers < 0
    /\ confIn.config.RetryMultiplier < 0
    /\ confIn.config.ServiceLimits = <<>>
    /\ confIn.config.Context = "nil"
    /\ confOut.config.Workers = 4

\* No backend call has been issued.
NoRpc ==
    /\ uploadID = ""
    /\ retErr = Nil
    /\ abortCalls = 0
    /\ completeCalls = 0
    /\ backendParts = {}

\* C23: configuration errors are detected before any network call: if
\* Config.Validate fails or CalculateOptimalPartSize fails, New returns that
\* error and no Uploader, and no backend call is ever issued.
C23_ConfigErrorsBeforeNetwork ==
    confIn.fn = "New" =>
        LET v == ValidateConfig(confIn.config)
            p == CalculateOptimalPartSize64(v.config.FileSize,
                     v.config.MaxMemoryMB, v.config.Workers,
                     v.config.QueueSize, v.config.ServiceLimits[1])
        IN  /\ ~confOut.done => NoRpc
            /\ (confOut.done /\ v.err # NoError) =>
                   /\ confOut.err = v.err
                   /\ ~confOut.uploader.exists
                   /\ NoRpc
            /\ (confOut.done /\ v.err = NoError /\ p.err # "") =>
                   /\ confOut.err.message = p.err
                   /\ ~confOut.uploader.exists
                   /\ NoRpc

\* New has returned the error of CalculateOptimalPartSize on a
\* configuration that Config.Validate accepts.
C23_Witness ==
    /\ confIn.fn = "New"
    /\ confOut.done
    /\ ValidateConfig(confIn.config).err = NoError
    /\ confOut.err.type = "error"
    /\ ~confOut.uploader.exists

\* The byte sequence `a` is a prefix of the byte sequence `b` (both as
\* BytesAppend builds them).
IsPrefix(a, b) ==
    \/ a = <<>>
    \/ /\ Len(a) <= Len(b)
       /\ \A i \in 1..(Len(a) - 1) : a[i] = b[i]
       /\ a[Len(a)].off = b[Len(a)].off
       /\ \/ a[Len(a)].len = b[Len(a)].len
          \/ a[Len(a)].len < b[Len(a)].len /\ Len(a) = Len(b)

\* During a Download with checksum enabled, what the hash was fed is a
\* prefix of what the sink accepted, and a block is hashed only after the
\* sink accepted it.
HashedPrefixOfSink ==
    (dpc \in {"copy", "hash", "done", "failed"} /\ dHash # NilHash) =>
        /\ IsPrefix(dHash.bytes, sink)
        /\ dpc = "hash" =>
               sink = BytesAppend(dHash.bytes, dblock.off, dblock.len)

\* When Download returns nil with checksum enabled, the checksum is the
\* hash of exactly the bytes delivered to the sink.
ChecksumOfSink ==
    (dpc = "done" /\ dHash # NilHash) =>
        dChecksum = [alg |-> dHash.alg, of |-> sink]

\* C27: during Download every block is written to the sink before it is
\* fed to the checksum, so the checksum input is always a prefix of the
\* bytes the sink accepted; when Download returns nil the checksum is the
\* hash of exactly the bytes delivered to the sink; and the checksum
\* accessor stays empty when Download fails.
C27_ChecksumReflectsSink ==
    /\ HashedPrefixOfSink
    /\ ChecksumOfSink
    /\ dpc = "failed" => dChecksum = NoChecksum

NoCompleteAfterAbortStep ==
    abortCalls >= 1 => completeCalls' = completeCalls

\* Once CompleteMultipartUpload has succeeded, the only step that issues an
\* AbortMultipartUpload call is the caller's own Abort(), not Upload.
NoAbortByUploadAfterCompleteStep ==
    (object.exists /\ abortCalls' # abortCalls) => (~userAborted /\ userAborted')

\* C29: once an AbortMultipartUpload call has been issued for the session
\* (by Upload's error path or by a concurrent Abort()), no
\* CompleteMultipartUpload call is issued for it afterwards; and once
\* CompleteMultipartUpload has succeeded, Upload issues no
\* AbortMultipartUpload.
C29_AbortedIsTerminal ==
    [][NoCompleteAfterAbortStep /\ NoAbortByUploadAfterCompleteStep]_vars

\* The second half of C29 alone.
UploadNeverAbortsAfterComplete == [][NoAbortByUploadAfterCompleteStep]_vars

\* With the cancellation signal raised and the Producer not yet returned,
\* a step publishes no chunk.
NoPublishAfterCancelStep ==
    (ctxDone /\ prodPc # "done") => published' = published

\* With the cancellation signal raised, a step in which the Producer
\* returns makes it return ctx.Err().
CancelledProducerReturnsCanceledStep ==
    (ctxDone /\ prodPc # "done" /\ prodPc' = "done") =>
        uploadErr' = Err("", 0, "canceled")

\* C30: once the cancellation signal has been raised, the Producer
\* publishes no further chunk to the chunk channel and returns the
\* context's cancellation error, whether it observes the signal at the top
\* of its loop or while waiting to publish a chunk; it never returns nil
\* after cancellation unless it had already returned.
C30_ProducerStopsOnCancel ==
    [][NoPublishAfterCancelStep /\ CancelledProducerReturnsCanceledStep]_vars

\* A step of worker w taken after cancellation: it starts no UploadPart
\* attempt; if it leaves the backoff sleep or dequeues a chunk, the chunk
\* fails with the cancellation error and the backend is not called.
CancelledWorkerStep(w) ==
    ctxDone =>
        /\ wpc[w] # "uploading" => wpc'[w] # "uploading"
        /\ (wpc[w] = "backoff" /\ wpc'[w] # "backoff") =>
               /\ wpc'[w] = "publish"
               /\ werr'[w] = "canceled"
               /\ wpart'[w] = wpart[w]
        /\ (wpc[w] = "recv" /\ wpc'[w] \notin {"recv", "done"}) =>
               /\ wpc'[w] = "publish"
               /\ werr'[w] = "canceled"
               /\ wpart'[w] = Head(partsChan)
        /\ (wpc[w] \in {"backoff", "recv"} /\ wpc'[w] # wpc[w]) =>
               backendParts' = backendParts

PipelineQuiet ==
    /\ prodPc = "done"
    /\ partsClosed
    /\ \A w \in WorkerIds : wpc[w] = "done"
    /\ resultsClosed
    /\ collPc = "done"

\* The step is one in which Upload itself issues CompleteMultipartUpload
\* or AbortMultipartUpload (an abort issued by the caller's Abort() is not).
UploadEndsSession ==
    \/ completeCalls' # completeCalls
    \/ abortCalls' # abortCalls /\ userAborted' = userAborted

\* C32: the session-ending call that Upload itself issues
\* (CompleteMultipartUpload, or AbortMultipartUpload on the error path)
\* happens only after the Producer has returned, the chunk channel has
\* been closed, every worker has exited, the result channel has been
\* closed and the Collector has returned; no UploadPart attempt is started
\* or still in flight when that call is made.
C32_SessionEndAfterPipeline ==
    [][UploadEndsSession =>
          /\ PipelineQuiet
          /\ \A w \in WorkerIds : wpc[w] # "uploading" /\ wpc'[w] = "done"]_vars

\* Upload has returned an error and issued the abort itself, after a run
\* of two workers that published at least two chunks.
C32_Witness ==
    /\ Returned /\ retErr # Nil
    /\ ~userAborted
    /\ abortCalls = 1
    /\ cfg.Workers = 2
    /\ Len(published) >= 2
    /\ PipelineQuiet

\* The chunks published for which no result has been published yet: those
\* waiting on partsChan and those a worker holds before its send on
\* resultsChan.
ChunksWithoutResult ==
    Len(partsChan)
    + Cardinality({w \in WorkerIds :
                      wpc[w] \in {"uploading", "backoff", "publish"}})

\* C33: a worker never exits before the chunk channel is closed and empty,
\* even after one of its chunks failed terminally or the session was
\* cancelled: every chunk the Producer published is dequeued by some
\* worker and gets exactly one result published for it, so the number of
\* results published never exceeds the number of chunks published and,
\* when the pipeline has come to its end (no step of Upload, a worker or
\* the Collector is left to take), equals it.
C33_EveryChunkGetsOneResult ==
    /\ \A w \in WorkerIds :
          wpc[w] = "done" => (partsClosed /\ partsChan = <<>>)
    /\ ChunksWithoutResult >= 0
    /\ ~ENABLED ProgramNext => ChunksWithoutResult = 0

\* A step in which collectResults receives a result and goes on: the
\* result carries no error and is kept.
CollectorKeepsStep ==
    (collPc = "run" /\ collPc' = "run" /\ Len(resultsChan') < Len(resultsChan)) =>
        /\ Head(resultsChan).err = "nil"
        /\ collParts' = Append(collParts,
               [number |-> Head(resultsChan).number,
                etag |-> Head(resultsChan).etag])

\* A step in which collectResults returns: with an error exactly when the
\* result it has just received carries one (every result received before
\* carried none), and then with no parts and an error that names that
\* result's number and cause; otherwise with every received result once.
CollectorReturnsStep ==
    (collPc = "run" /\ collPc' = "done") =>
        IF resultsChan # <<>>
        THEN /\ Head(resultsChan).err # "nil"
             /\ collectorErr'.op = "uploading part"
             /\ collectorErr'.part = Head(resultsChan).number
             /\ collectorErr'.cause = Head(resultsChan).err
             /\ completedParts' = <<>>
        ELSE /\ resultsClosed
             /\ collectorErr' = Nil
             /\ SameEntries(collParts, completedParts')

\* C34: collectResults returns an error if and only if at least one result
\* it receives carries an error; in that case it returns no parts list and
\* an UploadError whose Operation names the sequence number of the first
\* failed result in arrival order and whose cause is that result's error,
\* and otherwise it returns every received result exactly once.
C34_CollectorReturn ==
    [][CollectorKeepsStep /\ CollectorReturnsStep]_vars

\* collectResults has returned the error of part 1, which arrived after the
\* good result of a later part.
C34_Witness ==
    /\ collPc = "done"
    /\ collectorErr # Nil
    /\ collectorErr.part = 1
    /\ collParts # <<>>
    /\ completedParts = <<>>

\* C35: the chunks the Producer publishes partition the input:
\* concatenating their data in ascending sequence order reproduces the
\* input byte sequence exactly, every chunk except the last holds exactly
\* partSize bytes, the last holds between 1 and partSize bytes, and no
\* empty chunk is ever published (also when the stream length is an exact
\* multiple of partSize).
C35_ChunksPartitionInput ==
    /\ \A i \in 1..Len(published) :
          /\ published[i].number = i
          /\ published[i].off = (i - 1) * partSize
          /\ published[i].len >= 1
          /\ published[i].len <= partSize
          /\ i < Len(published) => published[i].len = partSize
    /\ ProducerOk => BytesOf(published) = WholeInput(streamLen)

\* The Producer has returned nil on a stream of exactly two part sizes,
\* having published two full chunks.
C35_Witness ==
    /\ ProducerOk
    /\ streamLen = 2 * partSize
    /\ Len(published) = 2
    /\ published[2].len = partSize

\* A step in which Upload returns and its deferred function calls Abort:
\* one AbortMultipartUpload call is issued, whether it fails or not, and
\* the error returned is the Producer's error if there is one and else
\* the error of the CompleteMultipartUpload call.
ReturnWithAbortStep ==
    (mainPc # "returned" /\ mainPc' = "returned" /\ abortCalls' # abortCalls) =>
        /\ abortCalls' = abortCalls + 1
        /\ retErr' # Nil
        /\ IF uploadErr # Nil
           THEN retErr' = uploadErr
           ELSE retErr'.op = "CompleteMultipartUpload"

\* C36: Abort is best-effort and never masks the original failure: when
\* Upload fails and the AbortMultipartUpload call it triggers also fails,
\* Upload still returns the original error (the Producer's, the chunk's or
\* the complete call's), not the abort error, and it does not retry the
\* abort.
C36_AbortNeverMasks ==
    [][/\ ReturnWithAbortStep
       /\ mainPc' = "returned" => retErr'.op # "AbortMultipartUpload"]_vars

\* Upload has returned the Producer's read error after its one
\* AbortMultipartUpload call failed.
C36_Witness ==
    /\ Returned
    /\ retErr = Err("reading data", 0, "io")
    /\ ~userAborted
    /\ abortCalls = 1
    /\ abortErrs = 1

\* No UploadPart call is in progress, between attempts or accepted for a
\* part number above ServiceLimits.MaxParts.
PartNumbersWithinMaxParts ==
    /\ \A w \in WorkerIds :
          wpc[w] \in {"uploading", "backoff"} =>
              wpart[w].number <= cfg.ServiceLimits.MaxParts
    /\ \A p \in backendParts : p.number <= cfg.ServiceLimits.MaxParts

\* When the Producer has returned nil it has published
\* ceil(FileSize / partSize) chunks.
ChunkCountAsDeclared ==
    ProducerOk => Len(published) = CeilDiv(cfg.FileSize, partSize)

\* C37: for any input stream, including one that delivers more bytes than
\* the FileSize declared in the configuration, Upload never issues an
\* UploadPart call with a part number greater than ServiceLimits.MaxParts,
\* and the number of chunks published equals ceil(FileSize / partSize).
C37_PartsWithinDeclaredSize ==
    /\ PartNumbersWithinMaxParts
    /\ ChunkCountAsDeclared

\* C38: with valid limits and fileSize <= MaxPartSize * MaxParts, the
\* second error of CalculateOptimalPartSize (the recomputed part size
\* exceeds MaxPartSize) is never returned for a fileSize that some part
\* size in [MinPartSize, MaxPartSize] splits into at most MaxParts parts.
\* Of those part sizes MaxPartSize gives the fewest parts.
C38_SecondErrorOnlyWhenUnrepresentable ==
    (/\ calcPc = "done"
     /\ ValidLimits(calcIn.limits)
     /\ calcIn.fileSize <= calcIn.limits.MaxPartSize * calcIn.limits.MaxParts
     /\ CeilDiv(calcIn.fileSize, calcIn.limits.MaxPartSize)
            <= calcIn.limits.MaxParts)
        => calcOut.err # "cannot be uploaded"

(***************************************************************************)
(* The cleanup command: runCleanup (the cobra handler of "cleanup") calls  *)
(* CleanupIncompleteUploads (cleanup.go:126-165), which lists the bucket's *)
(* incomplete multipart uploads with ListIncompleteUploads and, unless     *)
(* DryRun is set, aborts each of them.  The bucket's uploads are numbered  *)
(* in listing order; each carries its age in hours.                        *)
(***************************************************************************)

MaxUploads == 3

\* time.ParseDuration on the --older-than values of the command's help
\* text: it knows the units ns, us, ms, s, m and h, so "7d" is an error.
\* The result is in hours; "" leaves olderThan at zero.
ParseDuration(s) ==
    CASE s = "" -> [ok |-> TRUE, hours |-> 0]
      [] s = "24h" -> [ok |-> TRUE, hours |-> 24]
      [] OTHER -> [ok |-> FALSE, hours |-> 0]

\* The loop of ListIncompleteUploads over the uploads the pages deliver,
\* in order: an upload initiated after the cutoff is skipped, the others
\* are appended, and the listing stops when MaxResults of them are kept.
RECURSIVE ListFrom(_, _, _, _)
ListFrom(bucket, i, uploads, c) ==
    IF i > Len(bucket)
    THEN uploads
    ELSE IF c.OlderThan > 0 /\ bucket[i].age < c.OlderThan
         THEN ListFrom(bucket, i + 1, uploads, c)
         ELSE IF c.MaxResults > 0 /\ Len(uploads) + 1 >= c.MaxResults
              THEN Append(uploads, bucket[i])
              ELSE ListFrom(bucket, i + 1, Append(uploads, bucket[i]), c)

ListIncompleteUploads(bucket, c) == ListFrom(bucket, 1, <<>>, c)

\* The uploads of a bucket: upload i is the i-th the backend lists.
Buckets ==
    UNION {{[i \in 1..n |-> [id |-> i, age |-> a[i]]] :
               a \in [1..n -> {1, 48}]} : n \in 0..MaxUploads}

CleanInputs ==
    {[cmd |-> "cleanup", configured |-> k, olderThan |-> o, MaxResults |-> m,
      DryRun |-> d, force |-> f, bucket |-> b] :
        k \in BOOLEAN, o \in {"", "24h", "7d"}, m \in 0..(MaxUploads - 1),
        d \in BOOLEAN, f \in BOOLEAN, b \in Buckets}

\* The CleanupConfig runCleanup builds from the flags.
CleanupConfig ==
    [OlderThan |-> ParseDuration(cleanIn.olderThan).hours,
     MaxResults |-> cleanIn.MaxResults, DryRun |-> cleanIn.DryRun]

InitCleanup ==
    /\ cleanIn \in CleanInputs
    /\ cleanPc = "start"
    /\ cleanResult = NilResult
    /\ abortLog = <<>>
    /\ prompted = FALSE
    /\ response = ""
    /\ cleanErr = ""
    /\ CalcIdle
    /\ RetryIdle
    /\ ConfIdle
    /\ PipelineInit(UploadConfig(1, 1, 1, 0, FALSE, FALSE), 0)

CleanFrame ==
    UNCHANGED <<cfgVars, confVars, retryVars, firstFatal, progVars, sumVars,
                downloadVars, object, backendParts, envVars, prodVars,
                mainVars, workerVars, collVars, chanVars, ctxDone, calcVars,
                cleanIn>>

\* runCleanup up to the call of CleanupIncompleteUploads: the required
\* settings and the --older-than duration.
RunCleanupBegin ==
    /\ cleanPc = "start"
    /\ IF ~cleanIn.configured
       THEN cleanPc' = "exit" /\ cleanErr' = "required"
       ELSE IF ~ParseDuration(cleanIn.olderThan).ok
            THEN cleanPc' = "exit" /\ cleanErr' = "invalid --older-than"
            ELSE cleanPc' = "list" /\ UNCHANGED cleanErr
    /\ UNCHANGED <<cleanResult, abortLog, prompted, response>>
    /\ CleanFrame

\* CleanupIncompleteUploads: the listing (its client or a page of it may
\* fail), the result built from it, and the return of the dry run.
CleanupList ==
    /\ cleanPc = "list"
    /\ \E listOk \in BOOLEAN :
          IF ~listOk
          THEN /\ cleanPc' = "failed"
               /\ UNCHANGED cleanResult
          ELSE LET uploads ==
                       ListIncompleteUploads(cleanIn.bucket, CleanupConfig)
               IN  /\ cleanResult' = [exists |-> TRUE,
                                      TotalFound |-> Len(uploads),
                                      TotalAborted |-> 0,
                                      Errors |-> <<>>,
                                      Uploads |-> uploads]
                   /\ cleanPc' = IF CleanupConfig.DryRun
                                 THEN "returned"
                                 ELSE "client"
    /\ UNCHANGED <<abortLog, prompted, response, cleanErr>>
    /\ CleanFrame

\* CleanupIncompleteUploads: the client for the aborts; when it cannot be
\* created the function returns nil and the error.
CleanupCreateClient ==
    /\ cleanPc = "client"
    /\ \E clientOk \in BOOLEAN :
          IF clientOk
          THEN cleanPc' = "abort" /\ UNCHANGED cleanResult
          ELSE cleanPc' = "failed" /\ cleanResult' = NilResult
    /\ UNCHANGED <<abortLog, prompted, response, cleanErr>>
    /\ CleanFrame

\* One abort that failed and ended the loop.
CleanupAbortOrBreak ==
    /\ cleanPc = "abort"
    /\ Len(abortLog) < Len(cleanResult.Uploads)
    /\ LET upload == cleanResult.Uploads[Len(abortLog) + 1]
       IN  /\ abortLog' = Append(abortLog, upload.id)
           /\ \E abortOk \in BOOLEAN :
                 IF abortOk
                 THEN /\ cleanResult' =
                             [cleanResult EXCEPT !.TotalAborted = @ + 1]
                      /\ UNCHANGED cleanPc
                 ELSE /\ cleanResult' =
                             [cleanResult EXCEPT
                                 !.Errors = Append(@, upload.id)]
                      /\ cleanPc' = "returned"
    /\ UNCHANGED <<prompted, response, cleanErr>>
    /\ CleanFrame

\* CleanupIncompleteUploads: one iteration of the loop over the uploads.
\* AbortMultipartUpload is called for the next one; its error is appended
\* to result.Errors, its success counted in result.TotalAborted.
CleanupAbort ==
    /\ cleanPc = "abort"
    /\ Len(abortLog) < Len(cleanResult.Uploads)
    /\ LET upload == cleanResult.Uploads[Len(abortLog) + 1]
       IN  /\ abortLog' = Append(abortLog, upload.id)
           /\ \E abortOk \in BOOLEAN :
                 cleanResult' =
                     IF abortOk
                     THEN [cleanResult EXCEPT !.TotalAborted = @ + 1]
                     ELSE [cleanResult EXCEPT
                              !.Errors = Append(@, upload.id)]
    /\ UNCHANGED <<cleanPc, prompted, response, cleanErr>>
    /\ CleanFrame

\* CleanupIncompleteUploads: the loop is over, return result, nil.
CleanupReturn ==
    /\ cleanPc = "abort"
    /\ Len(abortLog) = Len(cleanResult.Uploads)
    /\ cleanPc' = "returned"
    /\ UNCHANGED <<cleanResult, abortLog, prompted, response, cleanErr>>
    /\ CleanFrame

\* runCleanup: CleanupIncompleteUploads returned an error.
RunCleanupFailed ==
    /\ cleanPc = "failed"
    /\ cleanPc' = "exit"
    /\ cleanErr' = "cleanup failed"
    /\ UNCHANGED <<cleanResult, abortLog, prompted, response>>
    /\ CleanFrame

\* runCleanup: the table of what was found; nothing found and the dry
\* run end here, --force goes on to the report, and otherwise the
\* confirmation prompt is printed.
RunCleanupDisplay ==
    /\ cleanPc = "returned"
    /\ IF cleanResult.TotalFound = 0 \/ cleanIn.DryRun
       THEN cleanPc' = "exit" /\ UNCHANGED prompted
       ELSE IF cleanIn.force
            THEN cleanPc' = "report" /\ UNCHANGED prompted
            ELSE cleanPc' = "prompt" /\ prompted' = TRUE
    /\ UNCHANGED <<cleanResult, abortLog, response, cleanErr>>
    /\ CleanFrame

\* What the user may type at the prompt; Scanln leaves response empty on
\* an empty line.
Responses == {"yes", "y", "no", "", "Y", "YES"}

\* runCleanup: fmt.Scanln(&response) and the comparison with "yes", "y".
RunCleanupConfirm ==
    /\ cleanPc = "prompt"
    /\ \E r \in Responses :
          /\ response' = r
          /\ cleanPc' = IF r # "yes" /\ r # "y" THEN "exit" ELSE "report"
    /\ UNCHANGED <<cleanResult, abortLog, prompted, cleanErr>>
    /\ CleanFrame

\* runCleanup: the report of what was aborted and of the errors.
RunCleanupReport ==
    /\ cleanPc = "report"
    /\ cleanPc' = "exit"
    /\ cleanErr' = IF Len(cleanResult.Errors) > 0
                   THEN "cleanup completed with errors"
                   ELSE ""
    /\ UNCHANGED <<cleanResult, abortLog, prompted, response>>
    /\ CleanFrame

NextCleanup ==
    \/ RunCleanupBegin
    \/ CleanupList
    \/ CleanupCreateClient
    \/ CleanupAbort
    \/ CleanupReturn
    \/ RunCleanupFailed
    \/ RunCleanupDisplay
    \/ RunCleanupConfirm
    \/ RunCleanupReport

SpecCleanup == InitCleanup /\ [][NextCleanup]_vars

\* CleanupIncompleteUploads has returned its result (and no error).
CleanupReturned ==
    cleanPc \in {"returned", "prompt", "report", "exit"} /\ cleanResult.exists

\* The ids of a list of uploads.
Ids(uploads) == [i \in 1..Len(uploads) |-> uploads[i].id]

\* C39: a dry run issues no abort call and returns TotalAborted = 0, no
\* Errors and the uploads found; a run that is not dry calls
\* AbortMultipartUpload at most once per listed upload, in listing order,
\* and when it returns its result it has called it exactly once for each
\* of them, failures included, with
\* TotalAborted + len(Errors) = TotalFound = len(Uploads).  A call that
\* returns an error instead (listing or client creation failed) has
\* issued no abort call.
C39_CleanupAccounting ==
    /\ cleanIn.cmd = "cleanup" /\ cleanIn.DryRun => abortLog = <<>>
    /\ cleanResult.exists =>
          /\ Len(abortLog) <= Len(cleanResult.Uploads)
          /\ abortLog = SubSeq(Ids(cleanResult.Uploads), 1, Len(abortLog))
          /\ cleanResult.Uploads =
                ListIncompleteUploads(cleanIn.bucket, CleanupConfig)
    /\ cleanPc = "failed" => abortLog = <<>> /\ ~cleanResult.exists
    /\ CleanupReturned /\ cleanIn.DryRun =>
          /\ cleanResult.TotalAborted = 0
          /\ cleanResult.Errors = <<>>
          /\ cleanResult.TotalFound = Len(cleanResult.Uploads)
    /\ CleanupReturned /\ ~cleanIn.DryRun =>
          /\ abortLog = Ids(cleanResult.Uploads)
          /\ cleanResult.TotalAborted + Len(cleanResult.Errors)
                = cleanResult.TotalFound
          /\ cleanResult.TotalFound = Len(cleanResult.Uploads)

\* A run that is not dry returned after an abort failed and a later one
\* succeeded: upload 1's abort is among the errors, the last listed
\* upload's is not, and every listed upload has its abort call.
C39_Witness ==
    /\ CleanupReturned
    /\ ~cleanIn.DryRun
    /\ Len(cleanResult.Uploads) >= 2
    /\ cleanResult.Errors = <<1>>
    /\ cleanResult.TotalAborted = Len(cleanResult.Uploads) - 1
    /\ abortLog = Ids(cleanResult.Uploads)

\* C40: without --dry-run and without --force, an upload is aborted only
\* after the confirmation prompt was printed and answered "yes" or "y".
C40_NoAbortBeforeConfirmation ==
    (cleanIn.cmd = "cleanup" /\ ~cleanIn.DryRun /\ ~cleanIn.force
        /\ abortLog # <<>>)
    => (prompted /\ response \in {"yes", "y"})

====
